---- MODULE Spec2Model ----
(***************************************************************************)
(* Model of the ticket-driven issue creator (src/main.py): the attachment  *)
(* uploader upload_attachment_to_repo_and_comment, its REST fallback       *)
(* create_branch_and_upload_via_api, and create_issue_from_jira, which     *)
(* reads the ticket, publishes the issue through create_issue_with_gh      *)
(* (src/issue_creator/github_client.py) and drives the uploads.  Two runs  *)
(* of the program share one repository: the attachments branch and the     *)
(* files on it are the shared state.  main() dispatches on the command     *)
(* line, the dry run is read from DRY_RUN, and the lines printed before    *)
(* the run connects to the repository are kept.  The pure functions have   *)
(* specifications of their own: sanitize_filename of the standalone upload *)
(* script (SanitizeSpec), severity_label (SeveritySpec) and                *)
(* build_issue_labels (LabelSpec) of github_client.py, and                 *)
(* render_issue_from_jira with SafeDict and sanitize of utils.py           *)
(* (RenderSpec).  The standalone upload script, from its environment       *)
(* check to its comment, is ScriptSpec.                                    *)
(***************************************************************************)
EXTENDS Integers, Sequences, FiniteSets, TLC

(* ------------------------------------------------------------------ *)
(* Bounds and program constants                                        *)
(* ------------------------------------------------------------------ *)

\* Longest list of discovered attachments of one run.
MaxAttachments == 2

\* Most attachments discovered by all runs together.
MaxUploads == 3

\* Most attachments discovered by all runs together when one of them is
\* started in every way the environment allows.
MaxTicketUploads == 2

\* The concurrent runs of the program (separate workflow runs, one issue each).
\* The runs are interchangeable: run1 names the one that discovered at least as
\* many attachments as the other; the other discovered at most what the longest
\* list leaves of the total.
Runs == {"run1", "run2"}

\* Values of JIRA_ISSUE_KEY a run may be started with.
Keys == {"SCRUM-1"}

\* os.getenv of a variable that is not set (None).
Unset == "<unset>"

\* Values of GH_PAT_AGENT a run may be started with ("" = empty).
Tokens == {"", "ghp_x"}

\* GH_PAT_AGENT of the run that is started next to the run under study.
OtherToken == "ghp_y"

\* DRY_RUN of a run that does not set it (os.getenv gives the default).
NoEnv == <<Unset>>

\* Values of DRY_RUN a run may be started with.
DryRuns == {NoEnv, <<"t", "r", "u", "e">>, <<"T", "R", "U", "E">>, <<"T", "r", "u", "e">>}

\* Values of JIRA_SUMMARY a run may be started with ("" = unset or empty).
Summaries == {"", "Fix login"}

\* The URL `gh issue create` prints for the issue it created.
ISSUE_URL == "https://github.com/owner/repo/issues/12"

\* Local files a run may discover, as <<directory, file name>>; a file name is
\* the sequence of its characters.
LocalFiles == {<<"attachments", <<"a", ".", "p", "n", "g">> >>,
               <<"attachments", <<"b", " ", "c", ".", "p", "n", "g">> >>}

\* Longest name given to sanitize_filename.
MaxNameLen == 3

\* The characters of the names given to sanitize_filename.
NameChars == {"a", "Z", "7", " ", ".", "_", "-", "/"}

\* Most entries of the attachments directory the standalone script lists.
MaxEntries == 3

\* The entries the attachments directory of the standalone script may hold: a
\* name (the sequence of its characters) and whether it is a regular file.
DirEntries == {[name |-> <<"a", " ", "b">>, is_file |-> TRUE],
               [name |-> <<"a", ".", "b">>, is_file |-> TRUE],
               [name |-> <<"a", "_", "b">>, is_file |-> TRUE],
               [name |-> <<"Z">>, is_file |-> FALSE]}

\* upload_attachments_to_branch_and_comment.py:29-32: the environment
\* variables the standalone script requires.
Required == {"GITHUB_REPOSITORY", "GH_PAT_AGENT", "JIRA_ISSUE_KEY", "ISSUE_NUMBER"}

\* Highest score given to severity_label, in hundredths (1000 = 10.00).
MaxScore == 1000

\* Longest sequence of extra labels given to build_issue_labels.
MaxExtras == 2

\* Python values of a spreadsheet cell or a function argument, tagged by
\* type: None, the float NaN (an empty cell), a float or an int with its value
\* in hundredths, a string that reads as a number (with that number), any
\* other string, and an int too large for a float.
None == <<"None">>
NaN == <<"nan">>
BigInt == <<"bigint">>

\* The numbers given as scores, in hundredths: -1.00 to 10.00.
Scores == (0 - 100)..MaxScore

\* The raw scores given to severity_label.
RawScores ==
    {<<"float", n>> : n \in Scores}
        \cup {<<"int", n>> : n \in {0, 400, 700, 900, 1000}}
        \cup {<<"numstr", n>> : n \in {390, 700, 980}}
        \cup {<<"str", "N/A">>, <<"str", "">>, <<"str", "abc">>, None, NaN, BigInt}

\* The values of the "CVSS Score" cell of a spreadsheet row: numbers of the
\* spreadsheet are floats or 64-bit ints.
CellScores == RawScores \ {BigInt}

\* The records given to build_issue_labels: rows with and without the
\* "CVSS Score" column.
NoRecord == [c \in {} |-> None]
Records == {NoRecord} \cup {[c \in {"CVSS Score"} |-> x] : x \in CellScores}

\* The labels a caller may pass as extras ("" = an empty label).
LabelPool == {"team:backend", "", "vulnerability", "severity:high", "severity:critical"}

\* The extra_labels argument: None (given = FALSE) or a sequence of labels.
NoExtras == [given |-> FALSE, items |-> <<>>]

\* Longest template (in pieces: literal texts and placeholders) read from the
\* template file.
MaxTemplateLen == 2

\* issue_renderer.py:53-57: the fields of the context of render_issue_from_jira.
FieldNames == {"jira_issue_key", "jira_summary", "jira_description"}

\* The names of the placeholders of a template file: the fields and one more.
PlaceholderNames == FieldNames \cup {"other"}

\* The values given for a ticket field: None, NaN, "" and a text.
FieldValues == {None, NaN, <<"str", "">>, <<"str", "Fix login">>}

\* The pieces of a template: a literal text or a named placeholder {name}.
Pieces == {<<"text", "text ">>} \cup {<<"field", n>> : n \in PlaceholderNames}

\* issue_renderer.py:60: the template file does not exist.
NoTemplate == [exists |-> FALSE, pieces |-> <<>>]

\* main.py:17
ATTACHMENTS_BRANCH == "issue-attachments"

\* main.py:247, main.py:265
RAW_HOST == "https://raw.githubusercontent.com"

\* repo.full_name of the repository both runs were started for.
full_name == "owner/repo"

NoFile == <<>>
NoSha == <<>>
NoUrl == <<>>
NoPath == <<>>

VARIABLES
    token,        \* run -> GH_PAT_AGENT of the run
    jira_key,     \* run -> JIRA_ISSUE_KEY of the run ("" = unset or empty)
    summary,      \* run -> JIRA_SUMMARY of the run
    repo_name,    \* run -> GITHUB_REPOSITORY of the run
    DRY_RUN,      \* run -> DRY_RUN of the run, its characters (NoEnv = not set)
    args,         \* run -> the switches on the command line of the run
    title,        \* run -> the issue title, <<>> until it is computed
    created,      \* run -> what create_issue_with_gh returned ("none" before)
    run_log,      \* run -> connection and publishing operations, with outcomes
    printed,      \* run -> the lines create_issue_from_jira printed before it
                  \* connects to the repository, each the fixed text and the
                  \* values formatted into it
    downloaded,   \* run -> the list of discovered attachment files
    pc,           \* run -> position in create_issue_from_jira / the upload call;
                  \* at the end "exit0" (returned), "exit1" (sys.exit(1)), "uncaught"
                  \* (an exception left create_issue_from_jira) or "crashed" (an
                  \* exception left an upload call)
    idx,          \* run -> index in downloaded of the attachment being uploaded
    sha,          \* run -> existing_file.sha read by get_contents in this call
    ret,          \* run -> what the current upload call returned
    trace,        \* run -> the remote operations of the current call, with outcomes
    comments,     \* run -> the issue comments attempted by the current call
    uploads,      \* run -> the upload calls that ended, in call order: <<file, returned>>
    branch,       \* remote: the attachments branch exists
    files,        \* remote: path on the attachments branch -> content (NoFile if none)
    ref_creations, \* remote: number of refs created for the attachments branch
    san_input,    \* standalone script: the name given to sanitize_filename
    san_output,   \* standalone script: the results of sanitize_filename, in call order
    environ,      \* standalone script: the required variables that are set and not empty
    directory,    \* standalone script: ATTACHMENTS_DIR, whether it exists and its entries
    at,           \* standalone script: its position; at the end "exit0" or "exit1"
    local_files,  \* standalone script: `files`, what list_local_files returned
    cursor,       \* standalone script: index in local_files of the file of the loop
    existing_sha, \* standalone script: what get_file_sha returned for that file
    uploaded_urls, \* standalone script: the <<fname, raw_url>> of the uploaded files
    calls,        \* standalone script: its requests and reads, <<what, file, outcome>>
    comment_posts, \* standalone script: the comments it tried to post
    attachments_branch, \* standalone script's repository: the branch exists
    tree,         \* standalone script's repository: the file names under
                  \* attachments/<JIRA_ISSUE_KEY>/ on the branch
    cvss_raw,     \* severity classifier: the raw score given to severity_label
    severity,     \* severity classifier: the results of severity_label, in call order
    vuln,         \* label builder: the record, column -> cell
    extra_labels, \* label builder: the caller's sequence of extra labels
    labels,       \* label builder: the calls of build_issue_labels that ended
    jira_fields,  \* renderer: the ticket key, summary and description given to it
    template,     \* renderer: the file templates/jira_issue_prompt.md
    context,      \* renderer: the mapping given to str.format_map
    body,         \* renderer: the results of render_issue_from_jira, in call order
    formatted     \* renderer: the results of str.format_map, in call order

inputs == <<token, jira_key, summary, repo_name, DRY_RUN, args, downloaded>>
ticket == <<title, created, run_log, printed>>
remote == <<branch, files, ref_creations>>
locals == <<sha, ret, trace, comments>>
script == <<san_input, san_output>>
standalone == <<environ, directory, at, local_files, cursor, existing_sha, uploaded_urls,
                calls, comment_posts, attachments_branch, tree>>
scoring == <<cvss_raw, severity>>
labelling == <<vuln, extra_labels, labels>>
rendering == <<jira_fields, template, context, body, formatted>>
offline == <<script, standalone, scoring, labelling, rendering>>
vars == <<token, jira_key, summary, repo_name, DRY_RUN, args, downloaded, title, created,
          run_log, printed, pc, idx, sha, ret, trace, comments, uploads, branch, files,
          ref_creations, san_input, san_output, environ, directory, at, local_files,
          cursor, existing_sha, uploaded_urls, calls, comment_posts, attachments_branch,
          tree,
          cvss_raw, severity, vuln,
          extra_labels, labels, jira_fields, template, context, body, formatted>>

(* ------------------------------------------------------------------ *)
(* Pure helpers                                                        *)
(* ------------------------------------------------------------------ *)

RECURSIVE SeqsUpTo(_, _)
\* All sequences over S of length at most n.
SeqsUpTo(S, n) ==
    IF n = 0 THEN {<<>>}
    ELSE LET shorter == SeqsUpTo(S, n - 1)
         IN shorter \cup {Append(s, x) : s \in {t \in shorter : Len(t) = n - 1}, x \in S}

\* main.py:369-390: the list `downloaded`. With JIRA_ATTACHMENTS set, every hint
\* adds the first local file of that name, so a file can be listed twice.
AttachmentLists == SeqsUpTo(LocalFiles, MaxAttachments)

RECURSIVE TotalLen(_, _)
\* The number of attachments the runs of R discovered together.
TotalLen(d, R) ==
    IF R = {} THEN 0
    ELSE LET r == CHOOSE x \in R : TRUE IN Len(d[r]) + TotalLen(d, R \ {r})

\* str.isalnum for the characters of the model.
isalnum(ch) ==
    ch \in {"a", "b", "c", "e", "f", "g", "i", "l", "n", "p", "Z", "7"}

sanitize_keeps_empty(name) ==
    SelectSeq([i \in 1..Len(name) |-> IF name[i] = " " THEN "_" ELSE name[i]],
              LAMBDA ch : isalnum(ch) \/ ch \in {".", "_", "-"})

\* upload_attachments_to_branch_and_comment.py:93-97: spaces become
\* underscores, then every character that is not alphanumeric, '.', '_' or '-'
\* is dropped, and an empty result becomes "file".
sanitize_filename(name) ==
    LET s == [i \in 1..Len(name) |-> IF name[i] = " " THEN "_" ELSE name[i]]
        kept == SelectSeq(s, LAMBDA ch : isalnum(ch) \/ ch \in {".", "_", "-"})
    IN IF kept # <<>> THEN kept ELSE <<"f", "i", "l", "e">>

\* os.path.basename of a local file.
basename(fp) == fp[2]

\* The attachment the current upload call of run r is about.
filepath(r) == downloaded[r][idx[r]]

filename(r) == basename(filepath(r))

target_path_drops_key(r) == <<"attachments", filename(r)>>

\* main.py:145 and main.py:107: attachments/<jira_key>/<filename>
target_path(r) == <<"attachments", jira_key[r], filename(r)>>

\* main.py:247 and main.py:265
raw_url(r) == <<RAW_HOST, full_name, ATTACHMENTS_BRANCH>> \o target_path(r)

\* The bytes of the local file on the runner of run r.
content(r) == <<r, filepath(r)>>

Paths == {<<"attachments", k, basename(f)>> : k \in Keys, f \in LocalFiles}
          \cup {<<"attachments", basename(f)>> : f \in LocalFiles}

\* Failures of a call through the structured client that no state of the
\* repository explains: a GithubException with a status other than 404, or
\* another exception (network).
ClientFaults == {"GithubException", "Exception"}

\* Failures of a raw HTTP request: an unexpected status code, or an exception
\* raised by the request itself.
HttpFaults == {"status", "Exception"}

Goto(r, label) == pc' = [pc EXCEPT ![r] = label]

\* The trace of a call keeps, of a failure no state of the repository explains,
\* only that it was an error.
Log(r, op, out) ==
    trace' = [trace EXCEPT ![r] =
                 Append(@, <<op, IF out \in ClientFaults THEN "error" ELSE out>>)]

Did(r, op, out) == \E i \in 1..Len(trace[r]) : trace[r][i] = <<op, out>>

Tried(r, op) == \E i \in 1..Len(trace[r]) : trace[r][i][1] = op

\* The exceptions a call can raise: GithubException with the status of the
\* response ("404", "409", "422", or "GithubException" for any other status),
\* and "Exception" for everything else (network errors, requests exceptions).
ExceptionKinds == {"404", "409", "422", "GithubException", "Exception"}

IsGithubException(kind) == kind \in {"404", "409", "422", "GithubException"}

outer_catches_github_only(kind) == IsGithubException(kind)

\* main.py:275: `except Exception` catches whatever the body raised.
outer_catches(kind) == kind \in ExceptionKinds

outer_starts_fallback(kind) == "rest_get_repo"

\* Where an exception that reaches the outer try of the upload call goes.
raise_outer(kind) == IF outer_catches(kind) THEN "comment_unexpected" ELSE "raised"

\* main.py:240-245: the handler of a failed file write starts the REST fallback
\* when the token is set (repo.full_name always splits in two).
on_write_error(r) ==
    IF token[r] \notin {Unset, ""} THEN "rest_get_repo" ELSE "comment_write_fail"

(* ------------------------------------------------------------------ *)
(* Initial state                                                       *)
(* ------------------------------------------------------------------ *)

\* The standalone script is not started.
NoScript ==
    /\ environ = {} /\ directory = [exists |-> FALSE, entries |-> {}]
    /\ at = "idle" /\ local_files = <<>> /\ cursor = 0 /\ existing_sha = NoSha
    /\ uploaded_urls = <<>> /\ calls = <<>> /\ comment_posts = <<>>
    /\ attachments_branch = FALSE /\ tree = {}

\* sanitize_filename is not called on its own, and the standalone script is
\* not started.
NoSanitize == san_input = <<>> /\ san_output = <<>> /\ NoScript

\* severity_label is not called.
NoScoring == cvss_raw = None /\ severity = <<>>

\* build_issue_labels is not called.
NoLabelling == vuln = NoRecord /\ extra_labels = NoExtras /\ labels = <<>>

\* render_issue_from_jira and str.format_map are not called.
NoRendering ==
    /\ jira_fields = [f \in FieldNames |-> None]
    /\ template = NoTemplate
    /\ context = [k \in {} |-> None]
    /\ body = <<>> /\ formatted = <<>>

\* No run has started, the attachments branch does not exist, the standalone
\* script does not run, and the label functions and the renderer are not
\* called.
Fresh ==
    /\ title = [r \in Runs |-> <<>>]
    /\ created = [r \in Runs |-> "none"]
    /\ run_log = [r \in Runs |-> <<>>]
    /\ printed = [r \in Runs |-> <<>>]
    /\ pc = [r \in Runs |-> "main"]
    /\ idx = [r \in Runs |-> 0]
    /\ sha = [r \in Runs |-> NoSha]
    /\ ret = [r \in Runs |-> "none"]
    /\ trace = [r \in Runs |-> <<>>]
    /\ comments = [r \in Runs |-> <<>>]
    /\ uploads = [r \in Runs |-> <<>>]
    /\ branch = FALSE
    /\ files = [p \in Paths |-> NoFile]
    /\ ref_creations = 0
    /\ NoSanitize /\ NoScoring /\ NoLabelling /\ NoRendering

\* Two concurrent runs started with --from-jira, a ticket key, a summary and a
\* repository, not as dry runs, each with its own discovered attachments.
Init ==
    /\ token \in [Runs -> Tokens]
    /\ jira_key \in [Runs -> Keys]
    /\ summary = [r \in Runs |-> "Fix login"]
    /\ repo_name = [r \in Runs |-> full_name]
    /\ DRY_RUN = [r \in Runs |-> NoEnv]
    /\ args = [r \in Runs |-> {"--from-jira"}]
    /\ downloaded \in {d \in [Runs -> AttachmentLists] :
                          /\ TotalLen(d, Runs) <= MaxUploads
                          /\ Len(d["run1"]) >= Len(d["run2"])
                          /\ Len(d["run2"]) <= MaxUploads - MaxAttachments}
    /\ Fresh

(* ------------------------------------------------------------------ *)
(* create_issue_from_jira: configuration, publishing, the upload loop  *)
(* ------------------------------------------------------------------ *)

\* main.py:20-27: the switches parse_args accepts.
Switches == {"--dry-run", "--from-jira"}

\* main.py:437-442: main() parses the command line and runs
\* create_issue_from_jira when --from-jira was given; it does nothing else,
\* and args.dry_run is not read.
main(r) ==
    /\ pc[r] = "main"
    /\ Goto(r, IF "--from-jira" \in args[r] THEN "start" ELSE "exit0")
    /\ UNCHANGED <<inputs, offline, ticket, idx, locals, uploads, remote>>

\* str.lower() of one character of the values of DRY_RUN.
lower_char(ch) ==
    CASE ch = "T" -> "t" [] ch = "R" -> "r" [] ch = "U" -> "u" [] ch = "E" -> "e"
      [] OTHER -> ch

\* str.lower().
case_kept(s) == s

lower(s) == [i \in 1..Len(s) |-> lower_char(s[i])]

\* os.getenv(name, default).
getenv(value, default) == IF value = NoEnv THEN default ELSE value

\* main.py:291: dry_run = os.getenv("DRY_RUN", "false").lower() == "true".
dry_run(r) == lower(getenv(DRY_RUN[r], <<"f", "a", "l", "s", "e">>)) = <<"t", "r", "u", "e">>

title_always_summary(su, k) == <<su, " - ", k>>

\* main.py:299: "<summary> - <key>", or "Issue <key>" without a summary.
title_of(su, k) == IF su # "" THEN <<su, " - ", k>> ELSE <<"Issue ", k>>

\* A printed line: the fixed text and the values formatted into it or
\* concatenated to it, in order.
Line(text, values) == [text |-> text, values |-> values]

\* print(...) of run r, once for every line.
Output(r, lines) == printed' = [printed EXCEPT ![r] = @ \o lines]

\* main.py:295: the line of a run without a ticket key.
no_key_lines == <<Line("Error: JIRA_ISSUE_KEY environment variable not set", <<>>)>>

\* main.py:302-306: the lines of a dry run.
dry_run_lines(r) ==
    <<Line("=== DRY RUN MODE ===", <<>>),
      Line("Would create issue:", <<>>),
      Line("  Title: ", title_of(summary[r], jira_key[r])),
      Line("  Jira Key: ", <<jira_key[r]>>),
      Line("  Summary: ", <<summary[r]>>)>>

\* main.py:287-307: the ticket fields are read; a run without a ticket key
\* exits with code 1; the title is computed; a dry run prints it and returns.
read_ticket(r) ==
    /\ pc[r] = "start"
    /\ IF jira_key[r] = ""
       THEN /\ Goto(r, "exit1")
            /\ Output(r, no_key_lines)
            /\ UNCHANGED title
       ELSE /\ title' = [title EXCEPT ![r] = title_of(summary[r], jira_key[r])]
            /\ Output(r, IF dry_run(r) THEN dry_run_lines(r) ELSE <<>>)
            /\ Goto(r, IF dry_run(r) THEN "exit0" ELSE "configure")
    /\ UNCHANGED <<inputs, offline, created, run_log, idx, locals, uploads, remote>>

\* main.py:311-312: the two values are printed with `"..." + value`, which
\* raises TypeError when the variable is not set (None).
print_env(r) ==
    IF token[r] = Unset \/ repo_name[r] = Unset THEN "TypeError" ELSE "ok"

\* main.py:311-312: the first line is printed when the token is set, the
\* second when the repository is set too (the concatenation raises before
\* print is called).
env_lines(r) ==
    (IF token[r] # Unset
     THEN <<Line("GH_PAT_AGENT environment variable value ", <<token[r]>>)>> ELSE <<>>)
    \o (IF token[r] # Unset /\ repo_name[r] # Unset
        THEN <<Line("GITHUB_REPOSITORY environment variable value ", <<repo_name[r]>>)>>
        ELSE <<>>)

\* main.py:314-319: the line of a run whose token, or else whose repository,
\* is empty.
not_set_lines(r) ==
    CASE print_env(r) # "ok" -> <<>>
      [] print_env(r) = "ok" /\ token[r] = "" ->
            <<Line("Error: GH_PAT_AGENT environment variable not set", <<>>)>>
      [] print_env(r) = "ok" /\ token[r] # "" /\ repo_name[r] = "" ->
            <<Line("Error: GITHUB_REPOSITORY environment variable not set", <<>>)>>
      [] OTHER -> <<>>

\* main.py:309-319: token and repository are read and printed; a run with an
\* empty token or repository exits with code 1.
configure(r) ==
    /\ pc[r] = "configure"
    /\ Output(r, env_lines(r) \o not_set_lines(r))
    /\ Goto(r, CASE print_env(r) # "ok" -> "uncaught"
                  [] print_env(r) = "ok" /\ token[r] = "" -> "exit1"
                  [] print_env(r) = "ok" /\ token[r] # "" /\ repo_name[r] = "" -> "exit1"
                  [] OTHER -> "ensure_repo")
    /\ UNCHANGED <<inputs, offline, title, created, run_log, idx, locals, uploads, remote>>

LogRun(r, entry) == run_log' = [run_log EXCEPT ![r] = Append(@, entry)]

\* main.py:321, 29-36: connect to the repository; a failure exits with code 1.
ensure_repo(r) ==
    /\ pc[r] = "ensure_repo"
    /\ \E out \in {"ok", "error"} :
          /\ LogRun(r, <<"ensure_repo", out>>)
          /\ Goto(r, IF out = "ok" THEN "create_issue" ELSE "exit1")
    /\ UNCHANGED <<inputs, offline, title, created, printed, idx, locals, uploads, remote>>

create_error_propagates == "uncaught"

\* github_client.py:74-76: an exception of repo.create_issue is caught and
\* printed, and the function goes on to the CLI fallback.
on_create_error == "gh_auth_status"

\* github_client.py:62-76: create the issue through the structured client (the
\* run always passes the repository it connected to).
create_issue(r) ==
    /\ pc[r] = "create_issue"
    /\ \E out \in {"ok", "error"} :
          /\ LogRun(r, <<"create_issue", out>>)
          /\ created' = [created EXCEPT ![r] = IF out = "ok" THEN "Issue" ELSE @]
          /\ Goto(r, IF out = "ok" THEN "publish" ELSE on_create_error)
    /\ UNCHANGED <<inputs, offline, title, printed, idx, locals, uploads, remote>>

auth_never_fails(out) == FALSE

\* github_client.py:80: auth_check.returncode != 0
auth_failed(out) == out # "0"

\* github_client.py:79-82: `gh auth status`; a non-zero exit makes the function
\* return False; subprocess.run raises when there is no gh to run, and nothing
\* catches that.
gh_auth_status(r) ==
    /\ pc[r] = "gh_auth_status"
    /\ \E out \in {"0", "1", "raised"} :
          /\ LogRun(r, <<"gh_auth_status", out>>)
          /\ created' = [created EXCEPT ![r] =
                            IF out # "raised" /\ auth_failed(out) THEN "False" ELSE @]
          /\ Goto(r, CASE out = "raised" -> "uncaught"
                        [] out # "raised" /\ auth_failed(out) -> "publish"
                        [] OTHER -> "gh_issue_create")
    /\ UNCHANGED <<inputs, offline, title, printed, idx, locals, uploads, remote>>

\* github_client.py:83-97: `gh issue create` with check=True; exit 0 returns
\* True (the output is printed, not returned), a non-zero exit returns False
\* (only CalledProcessError is caught); subprocess.run raises OSError when the
\* command cannot be started (an argument list too long for the system, no gh
\* to run), and nothing catches that.
gh_issue_create(r) ==
    /\ pc[r] = "gh_issue_create"
    /\ \E out \in {"0", "1", "raised"} :
          \E stdout \in (IF out = "0" THEN {ISSUE_URL, ""} ELSE {""}) :
              /\ LogRun(r, <<"gh_issue_create", out, stdout>>)
              /\ created' = [created EXCEPT ![r] =
                                CASE out = "0" -> "True"
                                  [] out = "1" -> "False"
                                  [] OTHER -> @]
              /\ Goto(r, IF out = "raised" THEN "uncaught" ELSE "publish")
    /\ UNCHANGED <<inputs, offline, title, printed, idx, locals, uploads, remote>>

\* The first upload call of the loop of main.py:429-430, or the end of the run
\* when nothing was discovered (main.py:426).
begin_uploads(r) ==
    IF downloaded[r] # <<>>
    THEN /\ Goto(r, "get_branch")
         /\ idx' = [idx EXCEPT ![r] = 1]
    ELSE /\ Goto(r, "exit0")
         /\ UNCHANGED idx

\* main.py:406: isinstance(created, str)
is_str(c) == c \notin {"none", "Issue", "True", "False"}

\* main.py:410: re.search(r"/issues/(\d+)", created)
has_issue_number(c) == c = ISSUE_URL

without_handle_fails(r) == IF downloaded[r] # <<>> THEN "exit1" ELSE "exit0"

\* main.py:426-432: without an Issue object the attachments are not uploaded
\* and the run ends normally.
without_handle(r) == "exit0"

\* main.py:402-435: the result of create_issue_with_gh is normalized to an
\* Issue object: the object itself, or, for a string with an issue URL, the
\* issue fetched by its number; then the attachments are uploaded when there
\* is an Issue object, and a falsy result exits with code 1.
publish(r) ==
    /\ pc[r] = "publish"
    /\ \E fetched \in {"ok", "error"} :
          LET parsed == is_str(created[r]) /\ has_issue_number(created[r])
              issue_obj == \/ created[r] = "Issue"
                           \/ parsed /\ fetched = "ok"
          IN /\ run_log' = [run_log EXCEPT ![r] =
                                IF parsed THEN Append(@, <<"get_issue", fetched>>) ELSE @]
             /\ CASE created[r] = "False" -> Goto(r, "exit1") /\ UNCHANGED idx
                  [] created[r] # "False" /\ issue_obj -> begin_uploads(r)
                  [] OTHER -> Goto(r, without_handle(r)) /\ UNCHANGED idx
    /\ UNCHANGED <<inputs, offline, title, created, printed, locals, uploads, remote>>

break_on_failure(r) ==
    IF ret[r] = "True" /\ idx[r] < Len(downloaded[r])
    THEN /\ Goto(r, "get_branch")
         /\ idx' = [idx EXCEPT ![r] = @ + 1]
    ELSE /\ Goto(r, "exit0")
         /\ UNCHANGED idx

\* main.py:429-430: the for loop goes on to the next file whatever the call
\* returned; an exception out of the call would end the run.
loop_step(r) ==
    IF ret[r] = "raised"
    THEN /\ Goto(r, "crashed")
         /\ UNCHANGED idx
    ELSE IF idx[r] < Len(downloaded[r])
         THEN /\ Goto(r, "get_branch")
              /\ idx' = [idx EXCEPT ![r] = @ + 1]
         ELSE /\ Goto(r, "exit0")
              /\ UNCHANGED idx

next_attachment(r) ==
    /\ pc[r] \in {"returned", "raised"}
    /\ uploads' = [uploads EXCEPT ![r] = Append(@, <<filepath(r), ret[r]>>)]
    /\ loop_step(r)
    /\ sha' = [sha EXCEPT ![r] = NoSha]
    /\ ret' = [ret EXCEPT ![r] = "none"]
    /\ trace' = [trace EXCEPT ![r] = <<>>]
    /\ comments' = [comments EXCEPT ![r] = <<>>]
    /\ UNCHANGED <<inputs, offline, ticket, remote>>

(* ------------------------------------------------------------------ *)
(* The remote repository, as the hosting service answers               *)
(* ------------------------------------------------------------------ *)

\* get_branch on the attachments branch: found, or 404.
branch_lookup == IF branch THEN "ok" ELSE "404"

\* Creating the ref of the attachments branch: created, or 422 "Reference
\* already exists".
ref_create == IF branch THEN "422" ELSE "ok"

\* get_contents of a path on the branch: found (with its sha), or 404.
contents_lookup(p) == IF files[p] # NoFile THEN "ok" ELSE "404"

\* A contents write with the sha s (NoSha when none is sent): a new file is
\* created when none exists; an existing file is replaced only when s is its
\* current sha; anything else is answered 409 (stale sha) or 422 (no sha).
contents_write(p, s) ==
    IF files[p] = NoFile THEN "ok"
    ELSE IF s = NoSha THEN "422"
    ELSE IF s = files[p] THEN "ok" ELSE "409"

write_replaces_tree(p, c) == [q \in Paths |-> IF q = p THEN c ELSE NoFile]

\* The tree of the branch after a contents write (create_file, update_file or
\* the PUT of the fallback) of c at p: one commit that changes the file at p.
written(p, c) == [files EXCEPT ![p] = c]

\* The sha of a file is the hash of its content: equal contents, equal shas.
sha_of(p) == files[p]

(* ------------------------------------------------------------------ *)
(* upload_attachment_to_repo_and_comment                               *)
(* ------------------------------------------------------------------ *)

\* Moves the call of run r to `label`; an exception that escapes the call is
\* what the call "returned" to the loop.
Jump(r, label) ==
    /\ pc' = [pc EXCEPT ![r] = label]
    /\ ret' = [ret EXCEPT ![r] = IF label = "raised" THEN "raised" ELSE @]

\* main.py:149-155, 202-204: the branch check.
get_branch(r) ==
    /\ pc[r] = "get_branch"
    /\ \E out \in {branch_lookup} \cup ClientFaults :
          /\ Log(r, "get_branch", out)
          /\ Jump(r, CASE out = "ok" -> "read_local"
                       [] out = "404" -> "get_default_branch"
                       [] OTHER -> raise_outer(out))
    /\ UNCHANGED <<inputs, offline, ticket, idx, sha, comments, uploads, remote>>

\* main.py:157-166: the default branch is fetched for its sha; a GithubException
\* ends the call with a comment, any other exception reaches the outer handler.
get_default_branch(r) ==
    /\ pc[r] = "get_default_branch"
    /\ \E out \in {"ok"} \cup ClientFaults :
          /\ Log(r, "get_default_branch", out)
          /\ Jump(r, CASE out = "ok" -> "create_git_ref"
                       [] IsGithubException(out) -> "comment_default_fail"
                       [] OTHER -> raise_outer(out))
    /\ UNCHANGED <<inputs, offline, ticket, idx, sha, comments, uploads, remote>>

conflict_is_failure(out) == FALSE

\* main.py:186: status 422 with "Reference already exists" in the message.
reference_already_exists(out) == out = "422"

\* main.py:167-201: create the ref; a concurrent creation (422) is confirmed by
\* a re-check, every other failure is re-raised to the outer handler.
create_git_ref(r) ==
    /\ pc[r] = "create_git_ref"
    /\ \E out \in {ref_create} \cup ClientFaults :
          /\ Log(r, "create_git_ref", out)
          /\ Jump(r, CASE out = "ok" -> "read_local"
                       [] out # "ok" /\ reference_already_exists(out) -> "confirm_branch"
                       [] OTHER -> raise_outer(out))
          /\ branch' = (branch \/ out = "ok")
          /\ ref_creations' = ref_creations + (IF out = "ok" THEN 1 ELSE 0)
    /\ UNCHANGED <<inputs, offline, ticket, idx, sha, comments, uploads, files>>

\* main.py:188-194: the confirmation re-check after a concurrent creation.
confirm_branch(r) ==
    /\ pc[r] = "confirm_branch"
    /\ \E out \in {branch_lookup} \cup ClientFaults :
          /\ Log(r, "confirm_branch", out)
          /\ Jump(r, IF out = "ok" THEN "read_local" ELSE raise_outer(out))
    /\ UNCHANGED <<inputs, offline, ticket, idx, sha, comments, uploads, remote>>

\* main.py:206-218: read the local file.
read_local(r) ==
    /\ pc[r] = "read_local"
    /\ \E out \in {"ok", "Exception"} :
          /\ Log(r, "read_local", out)
          /\ Jump(r, IF out = "ok" THEN "get_contents" ELSE "comment_read_fail")
    /\ UNCHANGED <<inputs, offline, ticket, idx, sha, comments, uploads, remote>>

\* main.py:223, 228-236: look the target path up; 404 means create.
get_contents(r) ==
    /\ pc[r] = "get_contents"
    /\ \E out \in {contents_lookup(target_path(r))} \cup ClientFaults :
          /\ Log(r, "get_contents", out)
          /\ Jump(r, CASE out = "ok" -> "update_file"
                       [] out = "404" -> "create_file"
                       [] OTHER -> on_write_error(r))
          /\ sha' = [sha EXCEPT ![r] = IF out = "ok" THEN sha_of(target_path(r)) ELSE @]
    /\ UNCHANGED <<inputs, offline, ticket, idx, comments, uploads, remote>>

update_sha_latest(r) == sha_of(target_path(r))

\* main.py:226: the update carries existing_file.sha, the sha get_contents read.
update_sha(r) == sha[r]

\* main.py:226, 228-238: update the existing file. The update is inside the try
\* whose handler takes a GithubException with status 404 for "no file at the
\* path", so an update answered 404 (the branch is gone, or the token may not
\* write) leads to create_file; any other failure is a write failure.
update_file(r) ==
    /\ pc[r] = "update_file"
    /\ \E out \in {contents_write(target_path(r), update_sha(r)), "404"} \cup ClientFaults :
          /\ Log(r, "update_file", out)
          /\ Jump(r, CASE out = "ok" -> "comment_success"
                       [] out = "404" -> "create_file"
                       [] OTHER -> on_write_error(r))
          /\ files' = IF out = "ok" THEN written(target_path(r), content(r))
                      ELSE files
    /\ UNCHANGED <<inputs, offline, ticket, idx, sha, comments, uploads, branch, ref_creations>>

\* main.py:232, 237-238: create the file (no sha); any failure is a write failure.
create_file(r) ==
    /\ pc[r] = "create_file"
    /\ \E out \in {contents_write(target_path(r), NoSha)} \cup ClientFaults :
          /\ Log(r, "create_file", out)
          /\ Jump(r, IF out = "ok" THEN "comment_success" ELSE on_write_error(r))
          /\ files' = IF out = "ok" THEN written(target_path(r), content(r))
                      ELSE files
    /\ UNCHANGED <<inputs, offline, ticket, idx, sha, comments, uploads, branch, ref_creations>>

(* ------------------------------------------------------------------ *)
(* create_branch_and_upload_via_api, called from the write-error       *)
(* handler of the upload call (main.py:237-256)                        *)
(* ------------------------------------------------------------------ *)

rest_failure_returns(out, next) ==
    CASE out \in {"200", "201"} -> next
      [] out = "Exception" -> raise_outer(out)
      [] OTHER -> "returned"

\* What a request of the fallback leads to: a 2xx answer goes on to `next`, any
\* other status makes the fallback return False (main.py:78-80, 86-88, 95-101,
\* 125-128), and an exception raised by the request leaves the fallback and
\* the write-error handler, and reaches the outer handler of the upload call.
rest_outcome(out, next) ==
    CASE out \in {"200", "201"} -> next
      [] out = "Exception" -> raise_outer(out)
      [] OTHER -> "comment_write_fail"

RestLabels == {"rest_get_repo", "rest_get_ref", "rest_post_ref", "rest_read", "rest_put"}

\* The trace of the upload call holds what the fallback gave its caller: True,
\* False, or an exception ("raised").
LogRest(r, label) ==
    trace' = [trace EXCEPT ![r] =
                 IF label \in RestLabels THEN @
                 ELSE Append(@, <<"rest", CASE label = "comment_success_rest" -> "True"
                                            [] label = "comment_write_fail" -> "False"
                                            [] OTHER -> "raised">>)]

\* One request (or local read) of the fallback, leading to `label`.
RestStep(r, label) == LogRest(r, label) /\ Jump(r, label)

\* main.py:77-83: GET the repository.
rest_get_repo(r) ==
    /\ pc[r] = "rest_get_repo"
    /\ \E out \in {"200"} \cup HttpFaults :
          RestStep(r, rest_outcome(out, "rest_get_ref"))
    /\ UNCHANGED <<inputs, offline, ticket, idx, sha, comments, uploads, remote>>

\* main.py:85-90: GET the ref of the default branch.
rest_get_ref(r) ==
    /\ pc[r] = "rest_get_ref"
    /\ \E out \in {"200"} \cup HttpFaults :
          RestStep(r, rest_outcome(out, "rest_post_ref"))
    /\ UNCHANGED <<inputs, offline, ticket, idx, sha, comments, uploads, remote>>

\* main.py:92-103: POST the ref of the attachments branch; 422 "Reference
\* already exists" is accepted.
rest_post_ref(r) ==
    /\ pc[r] = "rest_post_ref"
    /\ \E out \in {IF ref_create = "ok" THEN "201" ELSE "422"} \cup HttpFaults :
          /\ RestStep(r, IF out = "422" THEN "rest_read" ELSE rest_outcome(out, "rest_read"))
          /\ branch' = (branch \/ out = "201")
          /\ ref_creations' = ref_creations + (IF out = "201" THEN 1 ELSE 0)
    /\ UNCHANGED <<inputs, offline, ticket, idx, sha, comments, uploads, files>>

\* main.py:105-113: read the local file again; a failure makes the fallback
\* return False.
rest_read(r) ==
    /\ pc[r] = "rest_read"
    /\ \E out \in {"ok", "Exception"} :
          RestStep(r, IF out = "ok" THEN "rest_put" ELSE "comment_write_fail")
    /\ UNCHANGED <<inputs, offline, ticket, idx, sha, comments, uploads, remote>>

rest_put_sha_current(r) == sha_of(target_path(r))

rest_put_sha_read(r) == sha[r]

\* main.py:116-120: the payload of the PUT holds message, content and branch,
\* and no sha.
rest_put_sha(r) == NoSha

\* main.py:115-128: PUT the content.
rest_put(r) ==
    /\ pc[r] = "rest_put"
    /\ \E out \in {IF contents_write(target_path(r), rest_put_sha(r)) = "ok"
                   THEN "201" ELSE "422"} \cup HttpFaults :
          /\ RestStep(r, rest_outcome(out, "comment_success_rest"))
          /\ files' = IF out = "201" THEN written(target_path(r), content(r))
                      ELSE files
    /\ UNCHANGED <<inputs, offline, ticket, idx, sha, comments, uploads, branch, ref_creations>>

(* ------------------------------------------------------------------ *)
(* The issue comments of the upload call, and its return               *)
(* ------------------------------------------------------------------ *)

CommentLabels == {"comment_success", "comment_success_rest", "comment_default_fail",
                  "comment_read_fail", "comment_write_fail", "comment_unexpected"}

\* The body of the comment posted at each place, as what it embeds: the file
\* name, the raw URL, the local path (main.py:163, 215, 250, 259, 266, 278).
comment_body(r, label) ==
    CASE label = "comment_success" ->
            [kind |-> "attachment", name |-> filename(r), url |-> raw_url(r), local_path |-> NoPath]
      [] label = "comment_success_rest" ->
            [kind |-> "attachment_rest", name |-> filename(r), url |-> raw_url(r), local_path |-> NoPath]
      [] label = "comment_default_fail" ->
            [kind |-> "upload_failed", name |-> "", url |-> NoUrl, local_path |-> NoPath]
      [] label = "comment_read_fail" ->
            [kind |-> "failed_to_read", name |-> filename(r), url |-> NoUrl, local_path |-> filepath(r)]
      [] label = "comment_write_fail" ->
            [kind |-> "failed_to_upload", name |-> filename(r), url |-> NoUrl, local_path |-> filepath(r)]
      [] label = "comment_unexpected" ->
            [kind |-> "unexpected_failure", name |-> filename(r), url |-> NoUrl, local_path |-> NoPath]

comment_failure_is_write_failure(r, label, posted) ==
    IF ~posted /\ label = "comment_success" THEN on_write_error(r) ELSE "returned"

\* main.py:166, 218, 252-255, 262, 270-273, 281: the call returns right after
\* the comment was attempted, posted or not.
after_comment(r, label, posted) == "returned"

returned_true_after_upload(label, posted) ==
    IF label \in {"comment_success", "comment_success_rest"} THEN "True" ELSE "False"

\* main.py:252-255, 270-273: True when the comment with the raw URL was posted;
\* every other return of the call is False.
returned_value(label, posted) ==
    IF label \in {"comment_success", "comment_success_rest"} /\ posted THEN "True" ELSE "False"

create_comment(r) ==
    /\ pc[r] \in CommentLabels
    /\ \E posted \in BOOLEAN :
          /\ comments' = [comments EXCEPT ![r] =
                             Append(@, [body |-> comment_body(r, pc[r]), posted |-> posted])]
          /\ pc' = [pc EXCEPT ![r] = after_comment(r, pc[r], posted)]
          /\ ret' = [ret EXCEPT ![r] =
                        IF after_comment(r, pc[r], posted) = "returned"
                        THEN returned_value(pc[r], posted) ELSE @]
    /\ UNCHANGED <<inputs, offline, ticket, idx, sha, trace, uploads, remote>>

(* ------------------------------------------------------------------ *)
(* Specification                                                       *)
(* ------------------------------------------------------------------ *)

Next ==
    \E r \in Runs :
        \/ main(r)
        \/ read_ticket(r)
        \/ configure(r)
        \/ ensure_repo(r)
        \/ create_issue(r)
        \/ gh_auth_status(r)
        \/ gh_issue_create(r)
        \/ publish(r)
        \/ get_branch(r)
        \/ get_default_branch(r)
        \/ create_git_ref(r)
        \/ confirm_branch(r)
        \/ read_local(r)
        \/ get_contents(r)
        \/ update_file(r)
        \/ create_file(r)
        \/ rest_get_repo(r)
        \/ rest_get_ref(r)
        \/ rest_post_ref(r)
        \/ rest_read(r)
        \/ rest_put(r)
        \/ create_comment(r)
        \/ next_attachment(r)

Spec == Init /\ [][Next]_vars

\* One run started in every way the environment allows, or in every way the
\* command line allows, next to a run that has a ticket key, a summary, a
\* token and a repository.
TicketEnvironments ==
    {[token |-> t, jira_key |-> k, summary |-> su, repo_name |-> n, DRY_RUN |-> d,
      args |-> {"--from-jira"}] :
        t \in Tokens \cup {Unset}, k \in Keys \cup {""}, su \in Summaries,
        n \in {Unset, "", full_name}, d \in DryRuns}

TicketCommandLines ==
    {[token |-> "ghp_x", jira_key |-> "SCRUM-1", summary |-> "Fix login",
      repo_name |-> full_name, DRY_RUN |-> d, args |-> a] :
        d \in DryRuns, a \in SUBSET Switches}

TicketInit ==
    /\ \E e \in TicketEnvironments \cup TicketCommandLines :
          /\ token = [r \in Runs |-> IF r = "run1" THEN e.token ELSE OtherToken]
          /\ jira_key = [r \in Runs |-> IF r = "run1" THEN e.jira_key ELSE "SCRUM-1"]
          /\ summary = [r \in Runs |-> IF r = "run1" THEN e.summary ELSE "Fix login"]
          /\ repo_name = [r \in Runs |-> IF r = "run1" THEN e.repo_name ELSE full_name]
          /\ DRY_RUN = [r \in Runs |-> IF r = "run1" THEN e.DRY_RUN ELSE NoEnv]
          /\ args = [r \in Runs |-> IF r = "run1" THEN e.args ELSE {"--from-jira"}]
    /\ downloaded \in {d \in [Runs -> AttachmentLists] :
                          /\ TotalLen(d, Runs) <= MaxTicketUploads
                          /\ Len(d["run1"]) >= Len(d["run2"])}
    /\ Fresh

TicketSpec == TicketInit /\ [][Next]_vars

(* ------------------------------------------------------------------ *)
(* sanitize_filename of the standalone upload script, applied to a     *)
(* name and to its own result                                          *)
(* ------------------------------------------------------------------ *)

\* No run of the ticket-driven program takes part.
NoRuns ==
    /\ token = [r \in Runs |-> Unset]
    /\ jira_key = [r \in Runs |-> ""]
    /\ summary = [r \in Runs |-> ""]
    /\ repo_name = [r \in Runs |-> Unset]
    /\ DRY_RUN = [r \in Runs |-> NoEnv]
    /\ args = [r \in Runs |-> {"--from-jira"}]
    /\ downloaded = [r \in Runs |-> <<>>]
    /\ title = [r \in Runs |-> <<>>]
    /\ created = [r \in Runs |-> "none"]
    /\ run_log = [r \in Runs |-> <<>>]
    /\ printed = [r \in Runs |-> <<>>]
    /\ pc = [r \in Runs |-> "main"]
    /\ idx = [r \in Runs |-> 0]
    /\ sha = [r \in Runs |-> NoSha]
    /\ ret = [r \in Runs |-> "none"]
    /\ trace = [r \in Runs |-> <<>>]
    /\ comments = [r \in Runs |-> <<>>]
    /\ uploads = [r \in Runs |-> <<>>]
    /\ branch = FALSE
    /\ files = [p \in Paths |-> NoFile]
    /\ ref_creations = 0

SanitizeInit ==
    /\ NoRuns /\ NoScript /\ NoScoring /\ NoLabelling /\ NoRendering
    /\ san_input \in SeqsUpTo(NameChars, MaxNameLen)
    /\ san_output = <<>>

\* sanitize_filename(x), then sanitize_filename(sanitize_filename(x)).
sanitize_name ==
    /\ Len(san_output) < 2
    /\ san_output' = Append(san_output,
                            sanitize_filename(IF san_output = <<>> THEN san_input
                                              ELSE san_output[Len(san_output)]))
    /\ UNCHANGED <<inputs, ticket, pc, idx, locals, uploads, remote, san_input,
                   standalone, scoring, labelling, rendering>>

SanitizeNext == sanitize_name

SanitizeSpec == SanitizeInit /\ [][SanitizeNext]_vars

(* ------------------------------------------------------------------ *)
(* The standalone upload script                                        *)
(* (issue_creator/upload_attachments_to_branch_and_comment.py)         *)
(* ------------------------------------------------------------------ *)

\* ord(ch) of the characters of the directory entries.
ord(ch) ==
    CASE ch = " " -> 32 [] ch = "." -> 46 [] ch = "Z" -> 90
      [] ch = "_" -> 95 [] ch = "a" -> 97 [] ch = "b" -> 98

\* x < y for two names, as str compares them: by the code points of the first
\* characters that differ, a proper prefix first.
RECURSIVE str_lt(_, _)
str_lt(x, y) ==
    IF y = <<>> THEN FALSE
    ELSE IF x = <<>> THEN TRUE
    ELSE IF Head(x) # Head(y) THEN ord(Head(x)) < ord(Head(y))
    ELSE str_lt(Tail(x), Tail(y))

\* The order sorted() puts two entries of one directory in: by their names.
path_lt(x, y) == str_lt(x, y)

\* sorted(p.iterdir()): the entries by ascending name.
RECURSIVE sorted(_)
sorted(entries) ==
    IF entries = {} THEN <<>>
    ELSE LET first == CHOOSE e \in entries :
                          \A o \in entries \ {e} : path_lt(e.name, o.name)
         IN <<first>> \o sorted(entries \ {first})

\* upload_attachments_to_branch_and_comment.py:45-49: nothing when the
\* directory does not exist, else its regular files in sorted order.
list_local_files(dir) ==
    IF ~dir.exists THEN <<>>
    ELSE SelectSeq(sorted(dir.entries), LAMBDA e : e.is_file)

\* The file of the current turn of the loop, and its name on the branch
\* (upload_attachments_to_branch_and_comment.py:117).
fpath == local_files[cursor].name
fname == sanitize_filename(fpath)

\* upload_attachments_to_branch_and_comment.py:133:
\* RAW_BASE/<branch>/attachments/<JIRA_ISSUE_KEY>/<fname>; the branch of the
\* script is "attachments" unless ATTACHMENTS_BRANCH names another.
script_raw_url(name) == <<RAW_HOST, full_name, "attachments", "attachments", "SCRUM-1", name>>

\* The sha of the file with that name on the branch.
script_sha(name) == <<"sha", name>>

ScriptCall(what, file, out) == calls' = Append(calls, <<what, file, out>>)

\* The script ends: sys.exit(code), a return of main() (code 0), or an
\* exception that leaves main() (the interpreter exits with code 1).
ScriptAt(label) == at' = label

\* The directories the script may be started in, the environment it may be
\* started with, and the repository it finds.
ScriptInit ==
    /\ NoRuns /\ NoScoring /\ NoLabelling /\ NoRendering
    /\ san_input = <<>> /\ san_output = <<>>
    /\ environ \in {Required, Required \ {"ISSUE_NUMBER"}, Required \ {"GH_PAT_AGENT"}}
    /\ directory \in {[exists |-> x, entries |-> es] :
                          x \in BOOLEAN,
                          es \in {e \in SUBSET DirEntries : Cardinality(e) <= MaxEntries}}
    /\ directory.exists \/ directory.entries = {}
    /\ at = "load"
    /\ local_files = <<>> /\ cursor = 0 /\ existing_sha = NoSha
    /\ uploaded_urls = <<>> /\ calls = <<>> /\ comment_posts = <<>>
    /\ attachments_branch \in BOOLEAN
    /\ tree \in {{}, {<<"a", "_", "b">>}}
    /\ attachments_branch \/ tree = {}

ScriptFrame == UNCHANGED <<inputs, ticket, pc, idx, locals, uploads, remote, script,
                           scoring, labelling, rendering, environ, directory>>

\* upload_attachments_to_branch_and_comment.py:22-32: a required variable that
\* is missing or empty ends the script with sys.exit(1) while it is loaded.
load ==
    /\ at = "load"
    /\ ScriptAt(IF Required \subseteq environ THEN "main" ELSE "exit1")
    /\ ScriptFrame
    /\ UNCHANGED <<local_files, cursor, existing_sha, uploaded_urls, calls, comment_posts,
                   attachments_branch, tree>>

\* upload_attachments_to_branch_and_comment.py:100-103: list the files; with
\* none, main() returns.
list_files ==
    /\ at = "main"
    /\ local_files' = list_local_files(directory)
    /\ ScriptAt(IF list_local_files(directory) = <<>> THEN "exit0" ELSE "get_default_branch")
    /\ ScriptFrame
    /\ UNCHANGED <<cursor, existing_sha, uploaded_urls, calls, comment_posts, attachments_branch, tree>>

\* upload_attachments_to_branch_and_comment.py:51-54, 105: raise_for_status,
\* or the request itself, raises out of main().
get_default_branch_of_script ==
    /\ at = "get_default_branch"
    /\ \E out \in {"200"} \cup HttpFaults :
          /\ ScriptCall("get_default_branch", <<>>, out)
          /\ ScriptAt(IF out = "200" THEN "branch_exists" ELSE "exit1")
    /\ ScriptFrame
    /\ UNCHANGED <<local_files, cursor, existing_sha, uploaded_urls, comment_posts,
                   attachments_branch, tree>>

\* After the branch is there: the first turn of the loop.
first_file == "read"

\* upload_attachments_to_branch_and_comment.py:56-58, 108-112: the branch
\* exists when the answer is 200; with any other answer it is created.
branch_exists ==
    /\ at = "branch_exists"
    /\ \E out \in {IF attachments_branch THEN "200" ELSE "404"} \cup HttpFaults :
          /\ ScriptCall("branch_exists", <<>>, out)
          /\ ScriptAt(CASE out = "200" -> first_file
                         [] out = "Exception" -> "exit1"
                         [] OTHER -> "create_get_ref")
          /\ cursor' = IF out = "200" THEN 1 ELSE cursor
    /\ ScriptFrame
    /\ UNCHANGED <<local_files, existing_sha, uploaded_urls, comment_posts, attachments_branch, tree>>

\* upload_attachments_to_branch_and_comment.py:62-64: the head of the default
\* branch.
create_get_ref ==
    /\ at = "create_get_ref"
    /\ \E out \in {"200"} \cup HttpFaults :
          /\ ScriptCall("get_ref", <<>>, out)
          /\ ScriptAt(IF out = "200" THEN "create_post_ref" ELSE "exit1")
    /\ ScriptFrame
    /\ UNCHANGED <<local_files, cursor, existing_sha, uploaded_urls, comment_posts,
                   attachments_branch, tree>>

\* upload_attachments_to_branch_and_comment.py:65-70: create the ref; an
\* answer that is not 200 or 201 (422 when the branch exists) raises.
create_post_ref ==
    /\ at = "create_post_ref"
    /\ \E out \in {IF attachments_branch THEN "422" ELSE "201"} \cup HttpFaults :
          /\ ScriptCall("post_ref", <<>>, out)
          /\ ScriptAt(IF out = "201" THEN first_file ELSE "exit1")
          /\ cursor' = IF out = "201" THEN 1 ELSE cursor
          /\ attachments_branch' = (attachments_branch \/ out = "201")
    /\ ScriptFrame
    /\ UNCHANGED <<local_files, existing_sha, uploaded_urls, comment_posts, tree>>

\* upload_attachments_to_branch_and_comment.py:121-123: read the file; the
\* read is outside the try of the loop.
read_file ==
    /\ at = "read"
    /\ \E out \in {"ok", "Exception"} :
          /\ ScriptCall("read", fpath, out)
          /\ ScriptAt(IF out = "ok" THEN "get_file_sha" ELSE "exit1")
    /\ ScriptFrame
    /\ UNCHANGED <<local_files, cursor, existing_sha, uploaded_urls, comment_posts,
                   attachments_branch, tree>>

\* upload_attachments_to_branch_and_comment.py:72-76, 125: the sha of the
\* file on the branch when the answer is 200, None with any other answer.
get_file_sha ==
    /\ at = "get_file_sha"
    /\ \E out \in {IF fname \in tree THEN "200" ELSE "404"} \cup HttpFaults :
          /\ ScriptCall("get_file_sha", fpath, out)
          /\ existing_sha' = IF out = "200" THEN script_sha(fname) ELSE NoSha
          /\ ScriptAt(IF out = "Exception" THEN "exit1" ELSE "upload_file")
    /\ ScriptFrame
    /\ UNCHANGED <<local_files, cursor, uploaded_urls, comment_posts, attachments_branch, tree>>

\* What the hosting service answers to the PUT: a new file is created, an
\* existing one is replaced when its sha is sent.
script_put(name, s) ==
    IF name \notin tree THEN "201" ELSE IF s = script_sha(name) THEN "200" ELSE "422"

abort_on_failure(ok) == IF ~ok THEN "comment" ELSE "next"

\* upload_attachments_to_branch_and_comment.py:129-131: `continue`, the loop
\* goes on with the next file after a failed upload as after a successful
\* one.
after_upload(ok) == "next"

\* upload_attachments_to_branch_and_comment.py:78-86, 126-134: PUT the
\* content; an answer that is not 200 or 201, or an exception of the request,
\* is caught and the file is skipped; an uploaded file is appended to
\* uploaded_urls; after the last file the loop ends.
upload_file ==
    /\ at = "upload_file"
    /\ \E out \in {script_put(fname, existing_sha)} \cup HttpFaults :
          LET ok == out \in {"200", "201"}
              last == after_upload(ok) = "comment" \/ cursor = Len(local_files)
              urls == IF ok THEN Append(uploaded_urls, <<fname, script_raw_url(fname)>>)
                      ELSE uploaded_urls
          IN /\ ScriptCall("upload_file", fpath, out)
             /\ tree' = IF ok THEN tree \cup {fname} ELSE tree
             /\ uploaded_urls' = urls
             /\ cursor' = IF last THEN cursor ELSE cursor + 1
             /\ ScriptAt(CASE ~last -> "read"
                            [] last /\ urls = <<>> -> "exit0"
                            [] OTHER -> "post_issue_comment")
    /\ ScriptFrame
    /\ UNCHANGED <<local_files, existing_sha, comment_posts, attachments_branch>>

\* upload_attachments_to_branch_and_comment.py:140-152: the body lists the
\* uploaded files in the order of uploaded_urls; a comment that cannot be
\* comment_posts ends the script with sys.exit(1).
post_issue_comment ==
    /\ at = "post_issue_comment"
    /\ \E ok \in BOOLEAN :
          /\ comment_posts' = Append(comment_posts, [body |-> uploaded_urls, ok |-> ok])
          /\ ScriptAt(IF ok THEN "exit0" ELSE "exit1")
    /\ ScriptFrame
    /\ UNCHANGED <<local_files, cursor, existing_sha, uploaded_urls, calls,
                   attachments_branch, tree>>

ScriptNext ==
    \/ load
    \/ list_files
    \/ get_default_branch_of_script
    \/ branch_exists
    \/ create_get_ref
    \/ create_post_ref
    \/ read_file
    \/ get_file_sha
    \/ upload_file
    \/ post_issue_comment

ScriptSpec == ScriptInit /\ [][ScriptNext]_vars

(* ------------------------------------------------------------------ *)
(* severity_label and build_issue_labels (github_client.py)            *)
(* ------------------------------------------------------------------ *)

\* float(x): the number in hundredths, NaN, or the exception raised.
float(x) ==
    CASE x[1] \in {"float", "int", "numstr"} -> <<"ok", x[2]>>
      [] x = NaN -> NaN
      [] x = BigInt -> <<"OverflowError">>
      [] x = None -> <<"TypeError">>
      [] OTHER -> <<"ValueError">>

\* github_client.py:17: cvss_raw not in ("N/A", None, "").
is_score(x) == x \notin {<<"str", "N/A">>, None, <<"str", "">>}

\* github_client.py:18: except (TypeError, ValueError).
parse_errors == {<<"TypeError">>, <<"ValueError">>}

\* github_client.py:16-19: the score in hundredths, NaN, or the exception that
\* leaves the try statement.
score_of(x) ==
    LET parsed == IF is_score(x) THEN float(x) ELSE <<"ok", 0>>
    IN IF parsed \in parse_errors THEN <<"ok", 0>> ELSE parsed

\* github_client.py:15-26: the label, or the exception raised. Every
\* comparison with NaN is false.
severity_label(x) ==
    LET score == score_of(x)
    IN CASE score[1] = "ok" /\ score[2] >= 900 -> "severity:critical"
         [] score[1] = "ok" /\ score[2] < 900 /\ score[2] >= 700 -> "severity:high"
         [] score[1] = "ok" /\ score[2] < 700 /\ score[2] >= 400 -> "severity:medium"
         [] score[1] = "ok" /\ score[2] < 400 -> "severity:low"
         [] score = NaN -> "severity:low"
         [] OTHER -> score[1]

\* vuln.get(column): the cell, None without the column.
get(row, column) == IF column \in DOMAIN row THEN row[column] ELSE None

\* github_client.py:29: `list(extra_labels) if extra_labels else []`, a new
\* list on both branches (shared = the list is the caller's own object).
working_list(extra) ==
    IF extra.given /\ extra.items # <<>>
    THEN [items |-> extra.items, shared |-> FALSE]
    ELSE [items |-> <<>>, shared |-> FALSE]

RECURSIVE keep_duplicates(_, _, _, _)
keep_duplicates(all, i, seen, deduped) ==
    IF i > Len(all) THEN deduped
    ELSE keep_duplicates(all, i + 1, seen, IF all[i] # "" THEN Append(deduped, all[i]) ELSE deduped)

RECURSIVE dedupe(_, _, _, _)
\* github_client.py:32-38: the loop over `labels` from index i on.
dedupe(all, i, seen, deduped) ==
    IF i > Len(all) THEN deduped
    ELSE IF all[i] # "" /\ all[i] \notin seen
         THEN dedupe(all, i + 1, seen \cup {all[i]}, Append(deduped, all[i]))
         ELSE dedupe(all, i + 1, seen, deduped)

\* github_client.py:28-38: what is returned (or the exception raised by
\* severity_label), and the caller's sequence after the call.
build_issue_labels(row, extra) ==
    LET own == working_list(extra)
        label == severity_label(get(row, "CVSS Score"))
        all == own.items \o <<"vulnerability", label>>
        raised == label \notin {"severity:critical", "severity:high",
                                "severity:medium", "severity:low"}
    IN [raised |-> IF raised THEN label ELSE "no",
        deduped |-> IF raised THEN <<>> ELSE dedupe(all, 1, {}, <<>>),
        extra |-> IF ~own.shared THEN extra
                  ELSE [extra EXCEPT !.items = IF raised THEN own.items \o <<"vulnerability">>
                                               ELSE all]]

\* severity_label is called with one raw score.
SeverityInit ==
    /\ NoRuns /\ NoSanitize /\ NoLabelling /\ NoRendering
    /\ cvss_raw \in RawScores
    /\ severity = <<>>

classify ==
    /\ severity = <<>>
    /\ severity' = <<severity_label(cvss_raw)>>
    /\ UNCHANGED <<inputs, ticket, pc, idx, locals, uploads, remote, script, standalone,
                   cvss_raw, labelling, rendering>>

SeverityNext == classify

SeveritySpec == SeverityInit /\ [][SeverityNext]_vars

\* build_issue_labels is called with one record and one sequence of extras
\* (or None).
ExtraLabels ==
    {NoExtras} \cup {[given |-> TRUE, items |-> e] : e \in SeqsUpTo(LabelPool, MaxExtras)}

LabelInit ==
    /\ NoRuns /\ NoSanitize /\ NoScoring /\ NoRendering
    /\ vuln \in Records
    /\ extra_labels \in ExtraLabels
    /\ labels = <<>>

\* One call: `labels` records the sequence that was passed and the result.
build_labels ==
    /\ labels = <<>>
    /\ LET call == build_issue_labels(vuln, extra_labels)
       IN /\ labels' = <<[passed |-> extra_labels, raised |-> call.raised,
                           deduped |-> call.deduped]>>
          /\ extra_labels' = call.extra
    /\ UNCHANGED <<inputs, ticket, pc, idx, locals, uploads, remote, script, standalone,
                   scoring, vuln, rendering>>

LabelNext == build_labels

LabelSpec == LabelInit /\ [][LabelNext]_vars

(* ------------------------------------------------------------------ *)
(* render_issue_from_jira (issue_renderer.py), SafeDict and sanitize   *)
(* (utils.py)                                                          *)
(* ------------------------------------------------------------------ *)

\* pd.isna(value).
isna(value) == value \in {None, NaN}

\* utils.py:7-10.
sanitize(value) ==
    IF isna(value) \/ value \in {<<"str", "">>, None} THEN <<"str", "N/A">> ELSE value

\* `value or default`: None and "" are false, NaN is true.
or(value, default) == IF value \in {None, <<"str", "">>} THEN default ELSE value

dict_missing(key) == <<"KeyError">>

\* utils.py:3-5: SafeDict.__missing__.
SafeDict_missing(key) == <<"ok", <<"str", "N/A">> >>

\* SafeDict(mapping)[key]: the value, or what __missing__ gives.
getitem(mapping, key) ==
    IF key \in DOMAIN mapping THEN <<"ok", mapping[key]>> ELSE SafeDict_missing(key)

\* What one piece of a template becomes under str.format_map.
format_piece(piece, mapping) ==
    IF piece[1] = "text" THEN <<"ok", <<"str", piece[2]>> >> ELSE getitem(mapping, piece[2])

\* str.format_map(SafeDict(mapping)) of a template of literal texts and named
\* placeholders: the texts of its pieces, or the exception of a lookup.
format_map(pieces, mapping) ==
    IF \E i \in 1..Len(pieces) : format_piece(pieces[i], mapping)[1] # "ok"
    THEN [raised |-> "KeyError", text |-> <<>>]
    ELSE [raised |-> "no",
          text |-> [i \in 1..Len(pieces) |-> format_piece(pieces[i], mapping)[2][2]]]

\* issue_renderer.py:63-127: the template in the code.
in_code_template ==
    << <<"text", "Issue Key: ">>, <<"field", "jira_issue_key">>,
       <<"text", " Summary: ">>, <<"field", "jira_summary">>,
       <<"text", " Description: ">>, <<"field", "jira_description">>,
       <<"text", " Create a branch named: fix/">>, <<"field", "jira_issue_key">>,
       <<"text", "-brief-description">> >>

\* issue_renderer.py:39-129.
render_issue_from_jira(jira_issue_key, jira_summary, jira_description) ==
    LET mapping ==
            [f \in FieldNames |->
                CASE f = "jira_issue_key" ->
                        sanitize(or(jira_issue_key, <<"str", "UNKNOWN">>))
                  [] f = "jira_summary" ->
                        sanitize(or(jira_summary, <<"str", "No summary provided">>))
                  [] f = "jira_description" ->
                        sanitize(or(jira_description, <<"str", "No description provided">>))]
    IN IF template.exists THEN format_map(template.pieces, mapping)
       ELSE format_map(in_code_template, mapping)

\* The template file, when it exists, is made of literal texts and named
\* placeholders.
Templates ==
    {NoTemplate} \cup {[exists |-> TRUE, pieces |-> t] : t \in SeqsUpTo(Pieces, MaxTemplateLen)}

\* The mappings given to str.format_map: some of the placeholder names, each
\* with a text.
Contexts ==
    UNION {[names -> {<<"str", "SCRUM-1">>}] : names \in SUBSET PlaceholderNames}

\* render_issue_from_jira is called with three field values; str.format_map is
\* called on the text of the template file with a mapping.
RenderInit ==
    /\ NoRuns /\ NoSanitize /\ NoScoring /\ NoLabelling
    /\ jira_fields \in [FieldNames -> FieldValues]
    /\ template \in Templates
    /\ context \in Contexts
    /\ body = <<>> /\ formatted = <<>>

render ==
    /\ body = <<>>
    /\ body' = <<render_issue_from_jira(jira_fields["jira_issue_key"],
                                        jira_fields["jira_summary"],
                                        jira_fields["jira_description"])>>
    /\ UNCHANGED <<inputs, ticket, pc, idx, locals, uploads, remote, script, standalone,
                   scoring, labelling, jira_fields, template, context, formatted>>

format ==
    /\ formatted = <<>>
    /\ template.exists
    /\ formatted' = <<format_map(template.pieces, context)>>
    /\ UNCHANGED <<inputs, ticket, pc, idx, locals, uploads, remote, script, standalone,
                   scoring, labelling, jira_fields, template, context, body>>

RenderNext == render \/ format

RenderSpec == RenderInit /\ [][RenderNext]_vars

(* ------------------------------------------------------------------ *)
(* What a call did, read off its trace                                 *)
(* ------------------------------------------------------------------ *)

RunLabels == {"main", "start", "configure", "ensure_repo", "create_issue", "gh_auth_status",
              "gh_issue_create", "publish", "exit0", "exit1", "uncaught", "crashed"}

InCall(r) == pc[r] \notin RunLabels

Returned(r) == pc[r] = "returned"

\* The primary transport failed at the file write: the contents lookup, the
\* update or the create ended in something else than success (404 of the
\* lookup means "create").
PrimaryWriteFailed(r) ==
    \/ Did(r, "get_contents", "error")
    \/ Tried(r, "update_file") /\ ~Did(r, "update_file", "ok")
    \/ Tried(r, "create_file") /\ ~Did(r, "create_file", "ok")

\* The primary transport failed while checking for or creating the branch.
PrimaryBranchFailed(r) ==
    \/ Did(r, "get_branch", "error")
    \/ Did(r, "get_default_branch", "error")
    \/ Did(r, "create_git_ref", "error")
    \/ Tried(r, "confirm_branch") /\ ~Did(r, "confirm_branch", "ok")

RestInvoked(r) == pc[r] \in RestLabels \/ Tried(r, "rest")

\* A comment of the current call of r that embeds the raw URL of the upload.
UrlComment(r, c) ==
    /\ c.body.kind \in {"attachment", "attachment_rest"}
    /\ c.body.url = <<RAW_HOST, full_name, ATTACHMENTS_BRANCH,
                      "attachments", jira_key[r], basename(filepath(r))>>

\* A comment of the current call of r that reports a failed upload.
FailureComment(c) ==
    c.body.kind \in {"upload_failed", "failed_to_read", "failed_to_upload", "unexpected_failure"}

Attempted(r, P(_)) == \E i \in 1..Len(comments[r]) : P(comments[r][i])

HasLocalPath(r, c) == FailureComment(c) /\ c.body.local_path = filepath(r)

(* ------------------------------------------------------------------ *)
(* Claims                                                              *)
(* ------------------------------------------------------------------ *)

\* C1: upload_attachment_to_repo_and_comment never raises: whatever the
\* outcomes of its remote operations, local reads and comment posts, no
\* exception leaves the call, and a call that ended returned True or False.
C1_NeverRaises ==
    \A r \in Runs :
        /\ pc[r] \notin {"raised", "crashed"}
        /\ ret[r] # "raised"
        /\ Returned(r) => ret[r] \in {"True", "False"}

\* A call in which the write failed, the fallback raised and the comment of the
\* outer handler could not be posted either, and which still returned False.
C1_Witness ==
    \E r \in Runs :
        /\ Returned(r)
        /\ PrimaryWriteFailed(r)
        /\ Did(r, "rest", "raised")
        /\ \E i \in 1..Len(comments[r]) : ~comments[r][i].posted
        /\ ret[r] = "False"

\* C2 (Scenario D): when the file write fails under the primary transport the
\* REST fallback is invoked; after a successful fallback a comment embedding the
\* raw URL is attempted; after a failed fallback a comment stating the failure
\* and holding the local path is attempted and the call returns False; no
\* exception escapes.
C2_ScenarioD ==
    \A r \in Runs :
        (Returned(r) /\ PrimaryWriteFailed(r)) =>
            /\ RestInvoked(r)
            /\ ret[r] \in {"True", "False"}
            /\ Did(r, "rest", "True") => Attempted(r, LAMBDA c : UrlComment(r, c))
            /\ ~Did(r, "rest", "True") =>
                  /\ Attempted(r, LAMBDA c : HasLocalPath(r, c))
                  /\ ret[r] = "False"

\* C3: the uploader falls back to the REST transport whenever the primary
\* transport fails at any step: the branch check, the default-branch fetch,
\* the branch creation or its confirmation, or the file write.
C3_FallbackAtAnyStep ==
    \A r \in Runs :
        (Returned(r) /\ (PrimaryBranchFailed(r) \/ PrimaryWriteFailed(r))) => RestInvoked(r)

\* A call in which the branch check failed with a server error: the call
\* returned False after the comment of the outer handler, without the fallback.
C3_BranchCheckFailed ==
    \E r \in Runs : Returned(r) /\ Did(r, "get_branch", "error") /\ ~RestInvoked(r)

\* C4 (Scenario E): when two runs both see the attachments branch absent and
\* both try to create it, one ref is created; the run answered 422 "Reference
\* already exists" goes on to the confirmation re-check and, once that
\* succeeded, to the local read and the file write like the run that created
\* the ref; a call that met the conflict fails only for a later reason (the
\* confirmation itself, the read, the write or the comment).
C4_ScenarioE ==
    /\ ref_creations <= 1
    /\ \A r \in Runs :
          /\ Did(r, "create_git_ref", "422") =>
                /\ branch
                /\ pc[r] = "confirm_branch" \/ Tried(r, "confirm_branch")
          /\ (Did(r, "create_git_ref", "ok") \/ Did(r, "confirm_branch", "ok")) =>
                /\ branch
                /\ pc[r] = "read_local" \/ Tried(r, "read_local")
          /\ (Returned(r) /\ Did(r, "create_git_ref", "422") /\ ret[r] = "False") =>
                \/ Did(r, "confirm_branch", "error")
                \/ Did(r, "read_local", "error")
                \/ PrimaryWriteFailed(r)
                \/ \E i \in 1..Len(comments[r]) : ~comments[r][i].posted

\* Two runs that both saw the branch absent: one created the ref, the other
\* was answered 422, confirmed the branch, and both calls returned True.
C4_Witness ==
    \E r1, r2 \in Runs :
        /\ r1 # r2
        /\ Did(r1, "get_branch", "404") /\ Did(r2, "get_branch", "404")
        /\ Did(r1, "create_git_ref", "ok")
        /\ Did(r2, "create_git_ref", "422") /\ Did(r2, "confirm_branch", "ok")
        /\ Returned(r1) /\ ret[r1] = "True"
        /\ Returned(r2) /\ ret[r2] = "True"
        /\ ref_creations = 1

\* C5 (compare-and-swap write): the content of an existing file changes only
\* in an update_file step of a run whose call read, in get_contents, the sha
\* the file has at that moment; create_file and the PUT of the REST fallback,
\* which carry no sha, and an update with a stale sha never replace it.
C5_CompareAndSwap ==
    [][\A p \in Paths :
          (files[p] # NoFile /\ files'[p] # files[p]) =>
              \E r \in Runs :
                  /\ pc[r] = "update_file" /\ pc'[r] = "comment_success"
                  /\ target_path(r) = p
                  /\ sha[r] = files[p]
                  /\ files'[p] = content(r)]_vars

\* A run replaced the content another run had written, with an update whose
\* sha it had read, while the other run held a sha that is now stale.
C5_Witness ==
    \E r, q \in Runs :
        /\ r # q
        /\ Did(r, "update_file", "ok")
        /\ files[target_path(r)] = content(r)
        /\ sha[r] # NoSha /\ sha[r] # content(r)
        /\ pc[q] = "update_file" /\ target_path(q) = target_path(r)
        /\ sha[q] = sha[r]

\* C6: when the update of an existing file is rejected because its sha changed
\* between the contents lookup and the update, the call ends as a failure: it
\* returns False, a failure comment was attempted, and the content on the
\* branch is not the content of this call.
C6_StaleUpdateFails ==
    \A r \in Runs :
        (Returned(r) /\ Did(r, "update_file", "409")) =>
            /\ ret[r] = "False"
            /\ Attempted(r, FailureComment)
            /\ files[target_path(r)] # NoFile
            /\ files[target_path(r)] # content(r)

\* A call whose update was rejected with 409, whose fallback returned False,
\* and which returned False after the comment with the local path.
C6_Witness ==
    \E r \in Runs :
        /\ Returned(r) /\ Did(r, "update_file", "409")
        /\ Did(r, "rest", "False")
        /\ Attempted(r, LAMBDA c : HasLocalPath(r, c))
        /\ ret[r] = "False"

\* C7 (Scenario C): a call that found the attachments branch at the check and
\* no file at the target path, and in which no operation failed, issued no
\* create-ref, created the file at attachments/<key>/<name>, attempted one
\* comment, with the URL <raw-host>/<owner>/<repo>/<branch>/attachments/<key>/<name>,
\* and returned True.
C7_ScenarioC ==
    \A r \in Runs :
        (/\ Returned(r)
         /\ Did(r, "get_branch", "ok")
         /\ Did(r, "get_contents", "404")
         /\ \A i \in 1..Len(trace[r]) : trace[r][i][2] \in {"ok", "404"}
         /\ \A i \in 1..Len(comments[r]) : comments[r][i].posted) =>
            /\ ~Tried(r, "create_git_ref") /\ ~RestInvoked(r)
            /\ Did(r, "create_file", "ok")
            /\ files[<<"attachments", jira_key[r], basename(filepath(r))>>] # NoFile
            /\ Len(comments[r]) = 1
            /\ UrlComment(r, comments[r][1])
            /\ comments[r][1].body.name = basename(filepath(r))
            /\ ret[r] = "True"

\* The call of Scenario C after its return: the file is on the branch with the
\* content of this call and the comment with the raw URL is posted.
C7_Witness ==
    \E r \in Runs :
        /\ Returned(r)
        /\ trace[r] = << <<"get_branch", "ok">>, <<"read_local", "ok">>,
                         <<"get_contents", "404">>, <<"create_file", "ok">> >>
        /\ files[target_path(r)] = content(r)
        /\ Len(comments[r]) = 1 /\ comments[r][1].posted
        /\ ret[r] = "True"

\* The file write of the current call of r succeeded, on either transport.
WriteSucceeded(r) ==
    Did(r, "update_file", "ok") \/ Did(r, "create_file", "ok") \/ Did(r, "rest", "True")

\* C8: when the file write succeeded (on the primary or the fallback transport)
\* and posting the comment failed, the call returns at once: the successful
\* write is its last remote operation, it starts no fallback and no further
\* write, and the file is still at the target path.
C8_NoRevertAfterCommentFailure ==
    \A r \in Runs :
        (/\ InCall(r)
         /\ WriteSucceeded(r)
         /\ \E i \in 1..Len(comments[r]) : ~comments[r][i].posted) =>
            /\ Returned(r)
            /\ ret[r] = "False"
            /\ Len(comments[r]) = 1
            /\ trace[r][Len(trace[r])] \in
                  {<<"update_file", "ok">>, <<"create_file", "ok">>, <<"rest", "True">>}
            /\ files[target_path(r)] # NoFile

\* A call that wrote the file through the primary transport, could not post
\* the comment, and returned with its content on the branch.
C8_Witness ==
    \E r \in Runs :
        /\ Returned(r)
        /\ Did(r, "create_file", "ok")
        /\ Len(comments[r]) = 1 /\ ~comments[r][1].posted
        /\ files[target_path(r)] = content(r)

\* C9 (failure reporting): whenever the local file cannot be read, or every
\* write attempt failed, a comment stating that the attachment could not be
\* uploaded and holding the local file path is attempted, and the call returns
\* False without raising, also when that comment cannot be posted.
C9_FailureReporting ==
    \A r \in Runs :
        (/\ Returned(r)
         /\ \/ Did(r, "read_local", "error")
            \/ PrimaryWriteFailed(r) /\ ~Did(r, "rest", "True")) =>
            /\ Attempted(r, LAMBDA c : HasLocalPath(r, c))
            /\ ret[r] = "False"

\* C10: in a run that obtained an issue handle, the upload calls are the
\* discovered attachments, one call each, in discovery order, whatever the
\* earlier calls returned: the calls that ended are a prefix of the list, the
\* call in progress is about the next file, and at the end of the run every
\* file of the list was tried.
C10_UploadsFollowDiscovery ==
    \A r \in Runs :
        /\ Len(uploads[r]) <= Len(downloaded[r])
        /\ \A i \in 1..Len(uploads[r]) : uploads[r][i][1] = downloaded[r][i]
        /\ InCall(r) => idx[r] = Len(uploads[r]) + 1 /\ idx[r] <= Len(downloaded[r])
        /\ (pc[r] = "exit0" /\ idx[r] >= 1) => Len(uploads[r]) = Len(downloaded[r])
        /\ pc[r] # "crashed"

\* A run at its end whose first upload call returned False and whose second
\* call, for the next file of the list, was made all the same.
C10_Witness ==
    \E r \in Runs :
        /\ pc[r] = "exit0"
        /\ Len(downloaded[r]) = 2 /\ downloaded[r][1] # downloaded[r][2]
        /\ Len(uploads[r]) = 2
        /\ uploads[r][1] = <<downloaded[r][1], "False">>
        /\ uploads[r][2][1] = downloaded[r][2]

\* C11: the attachments branch is append/update-only: in every step the branch
\* stays once it exists, the number of refs created never decreases, every
\* path that holds a file keeps holding one, and the repository changes only
\* in a create-ref (create_git_ref, POST of the fallback), a create_file, an
\* update_file or the PUT of the fallback.
C11_AppendUpdateOnly ==
    [][/\ branch => branch'
       /\ ref_creations' >= ref_creations
       /\ \A p \in Paths : files[p] # NoFile => files'[p] # NoFile
       /\ remote' # remote =>
             \E r \in Runs :
                 /\ pc[r] \in {"create_git_ref", "rest_post_ref", "create_file",
                                "update_file", "rest_put"}
                 /\ pc'[r] # pc[r]
                 /\ pc[r] \in {"create_git_ref", "rest_post_ref"} => files' = files
                 /\ pc[r] \in {"create_file", "update_file", "rest_put"} =>
                       /\ branch' = branch /\ ref_creations' = ref_creations
                       /\ \A p \in Paths \ {target_path(r)} : files'[p] = files[p]]_vars

\* Two files are on the branch, and the one written first was since replaced
\* by an update of another call.
C11_Witness ==
    \E p, q \in Paths, r \in Runs :
        /\ p # q
        /\ files[p] # NoFile /\ files[q] # NoFile
        /\ Did(r, "update_file", "ok") /\ target_path(r) = p

\* The path the spec gives an attachment: attachments/<key>/<sanitized name>.
SanitizedPath(k, f) == <<"attachments", k, sanitize_filename(basename(f))>>

\* C12: every file on the attachments branch is at a path
\* attachments/<ticket-key>/<sanitized-filename> of some discovered file, and
\* the raw URL of every comment of a call ends in that path of the call's file.
C12_SanitizedPath ==
    /\ \A p \in Paths :
          files[p] # NoFile => \E k \in Keys, f \in LocalFiles : p = SanitizedPath(k, f)
    /\ \A r \in Runs : \A i \in 1..Len(comments[r]) :
          comments[r][i].body.url # NoUrl =>
              comments[r][i].body.url =
                  <<RAW_HOST, full_name, ATTACHMENTS_BRANCH>>
                      \o SanitizedPath(jira_key[r], filepath(r))

\* C13: sanitize_filename(x) is not empty and holds only alphanumerics, '.',
\* '_' and '-', and sanitize_filename(sanitize_filename(x)) is the same name.
C13_SanitizeIdempotent ==
    /\ \A i \in 1..Len(san_output) :
          /\ san_output[i] # <<>>
          /\ \A j \in 1..Len(san_output[i]) :
                isalnum(san_output[i][j]) \/ san_output[i][j] \in {".", "_", "-"}
    /\ Len(san_output) = 2 => san_output[2] = san_output[1]

\* A name of a space and a slash only, sanitized twice: "_" both times.
C13_Witness ==
    /\ san_input = <<" ", "/">>
    /\ san_output = << <<"_">>, <<"_">> >>

\* The number of operations of the current call of r whose name is in ops.
Count(r, ops) == Cardinality({i \in 1..Len(trace[r]) : trace[r][i][1] \in ops})

\* C14: in one upload call the file write of the primary transport is
\* attempted at most once, the REST fallback is invoked at most once, and the
\* call makes a bounded number of transport operations (at most one of each
\* kind), after which it returns.
C14_OneShotRetry ==
    \A r \in Runs :
        /\ Count(r, {"update_file", "create_file"}) <= 1
        /\ Count(r, {"rest"}) <= 1
        /\ \A op \in {"get_branch", "get_default_branch", "create_git_ref",
                        "confirm_branch", "read_local", "get_contents"} :
              Count(r, {op}) <= 1

\* A call whose update was answered 404 and which then tried create_file: two
\* file writes on the primary transport.
C14_SecondWrite ==
    \E r \in Runs :
        /\ Returned(r)
        /\ Did(r, "update_file", "404")
        /\ Tried(r, "create_file")

(* ------------------------------------------------------------------ *)
(* What a run did, read off its log                                    *)
(* ------------------------------------------------------------------ *)

Ran(r, op) == \E i \in 1..Len(run_log[r]) : run_log[r][i][1] = op

RanWith(r, op, out) ==
    \E i \in 1..Len(run_log[r]) : run_log[r][i][1] = op /\ run_log[r][i][2] = out

Ended(r) == pc[r] \in {"exit0", "exit1", "uncaught", "crashed"}

\* The exit code of the process of an ended run: 0 after a normal return, 1
\* after sys.exit(1) and after an uncaught exception.
exit_code(r) == IF pc[r] = "exit0" THEN 0 ELSE 1

Missing(v) == v \in {Unset, ""}

\* The run is ticket-driven (create_issue_from_jira is what it runs).
FromJira(r) == "--from-jira" \in args[r]

\* The ticket-driven run has read its ticket.
Entered(r) == FromJira(r) /\ pc[r] \notin {"main", "start"}

\* In a ticket-driven run the ticket key is missing, or the run is not a dry
\* run and the token or the repository identifier is missing.
ConfigError(r) ==
    /\ FromJira(r)
    /\ \/ jira_key[r] = ""
       \/ ~dry_run(r) /\ (Missing(token[r]) \/ Missing(repo_name[r]))

IssueCreated(r) == created[r] \in {"Issue", "True"}

\* C15: when repo.create_issue raises, create_issue_with_gh does not let the
\* exception out: it goes on to the authentication check of the CLI and, once
\* that passed, to `gh issue create`; when create_issue succeeds the Issue
\* object is returned and no gh command is run.
C15_PrimaryFallsThrough ==
    \A r \in Runs :
        /\ RanWith(r, "create_issue", "error") =>
              /\ pc[r] = "gh_auth_status" \/ Ran(r, "gh_auth_status")
              /\ RanWith(r, "gh_auth_status", "0") =>
                    pc[r] = "gh_issue_create" \/ Ran(r, "gh_issue_create")
        /\ RanWith(r, "create_issue", "ok") =>
              /\ created[r] = "Issue"
              /\ ~Ran(r, "gh_auth_status") /\ ~Ran(r, "gh_issue_create")
              /\ pc[r] \notin {"gh_auth_status", "gh_issue_create", "uncaught"}

\* A run whose create_issue raised and whose issue was then created by the CLI.
C15_Witness ==
    \E r \in Runs :
        /\ run_log[r] = << <<"ensure_repo", "ok">>, <<"create_issue", "error">>,
                           <<"gh_auth_status", "0">>,
                           <<"gh_issue_create", "0", ISSUE_URL>> >>
        /\ created[r] = "True"
        /\ pc[r] = "exit0"

\* C16: `gh issue create` is run only after `gh auth status` exited 0; after a
\* non-zero exit of the authentication check the function returns False and
\* the create command is not run; exit 0 of the create command returns True
\* and a non-zero exit returns False (a create command that could not be
\* started has no exit code, and nothing is returned).
C16_CliAuthFirst ==
    \A r \in Runs :
        /\ \A i \in 1..Len(run_log[r]) :
              run_log[r][i][1] = "gh_issue_create" =>
                  /\ \E j \in 1..(i - 1) : run_log[r][j] = <<"gh_auth_status", "0">>
                  /\ run_log[r][i][2] = "0" => created[r] = "True"
                  /\ run_log[r][i][2] = "1" => created[r] = "False"
                  /\ run_log[r][i][2] = "raised" =>
                        (created[r] = "none" /\ pc[r] = "uncaught")
        /\ pc[r] = "gh_issue_create" => RanWith(r, "gh_auth_status", "0")
        /\ RanWith(r, "gh_auth_status", "1") =>
              /\ created[r] = "False"
              /\ ~Ran(r, "gh_issue_create")
              /\ pc[r] \in {"publish", "exit1"}

\* A run whose CLI session was not authenticated: no create command, exit 1.
C16_Witness ==
    \E r \in Runs :
        /\ run_log[r] = << <<"ensure_repo", "ok">>, <<"create_issue", "error">>,
                           <<"gh_auth_status", "1">> >>
        /\ created[r] = "False"
        /\ pc[r] = "exit1"

\* C17: when the issue was created by the CLI and the output of the command
\* holds an issue URL, the run fetches the issue by its number through the
\* structured client and, once it has that handle, uploads the discovered
\* attachments.
C17_HandleRecovered ==
    \A r \in Runs :
        (/\ Ended(r)
         /\ \E i \in 1..Len(run_log[r]) :
               run_log[r][i] = <<"gh_issue_create", "0", ISSUE_URL>>) =>
            /\ Ran(r, "get_issue")
            /\ RanWith(r, "get_issue", "ok") => Len(uploads[r]) = Len(downloaded[r])

\* A run whose issue was created by the CLI, which printed the issue URL: the
\* run ended without fetching the issue and without an upload call, although
\* it had discovered attachments.
C17_NoHandle ==
    \E r \in Runs :
        /\ pc[r] = "exit0"
        /\ \E i \in 1..Len(run_log[r]) :
              run_log[r][i] = <<"gh_issue_create", "0", ISSUE_URL>>
        /\ downloaded[r] # <<>>
        /\ ~Ran(r, "get_issue")
        /\ uploads[r] = <<>>

\* C18: a run whose ticket key, token or repository identifier is missing
\* ends in sys.exit(1), and has attempted no repository connection, no issue
\* creation and no upload.
C18_ConfigErrorsFatal ==
    \A r \in Runs :
        ConfigError(r) =>
            /\ pc[r] \in {"main", "start", "configure", "exit1"}
            /\ run_log[r] = <<>>
            /\ uploads[r] = <<>> /\ trace[r] = <<>>

\* A run started without GH_PAT_AGENT: it ended in an uncaught exception.
C18_Uncaught ==
    \E r \in Runs :
        /\ jira_key[r] # "" /\ ~dry_run(r)
        /\ token[r] = Unset
        /\ pc[r] = "uncaught"
        /\ run_log[r] = <<>>

\* C19: an ended run has exit code 1 exactly when a configuration error
\* occurred or it is not a dry run and no issue was created (the connection
\* failed, or both transports failed); otherwise the exit code is 0, also
\* when upload calls returned False and when there was no issue handle to
\* upload with.
C19_ExitCode ==
    \A r \in Runs :
        (FromJira(r) /\ Ended(r)) =>
            (exit_code(r) = 1 <=> (ConfigError(r) \/ (~dry_run(r) /\ ~IssueCreated(r))))

\* A run that created the issue and whose two upload calls both returned
\* False: exit code 0.
C19_Witness ==
    \E r \in Runs :
        /\ Ended(r) /\ exit_code(r) = 0
        /\ created[r] = "Issue"
        /\ Len(uploads[r]) = 2
        /\ uploads[r][1][2] = "False" /\ uploads[r][2][2] = "False"

\* C20 (Scenario F): the title is "<summary> - <key>" with a summary and
\* "Issue <key>" without one; a dry run with a key and no summary returns
\* normally, and a run without a summary that ends with exit code 1 has a
\* configuration error or created no issue.
C20_ScenarioF ==
    \A r \in Runs :
        /\ (Entered(r) /\ jira_key[r] # "") =>
              title[r] = (IF summary[r] = "" THEN <<"Issue ", jira_key[r]>>
                          ELSE <<summary[r], " - ", jira_key[r]>>)
        /\ (summary[r] = "" /\ jira_key[r] # "" /\ dry_run(r) /\ Entered(r)) =>
              pc[r] = "exit0"
        /\ (summary[r] = "" /\ FromJira(r) /\ Ended(r) /\ exit_code(r) = 1) =>
              (ConfigError(r) \/ ~IssueCreated(r))

\* A run without a summary that created its issue, titled "Issue SCRUM-1",
\* and returned normally.
C20_Witness ==
    \E r \in Runs :
        /\ summary[r] = "" /\ ~dry_run(r)
        /\ title[r] = <<"Issue ", "SCRUM-1">>
        /\ created[r] = "Issue"
        /\ pc[r] = "exit0"

(* ------------------------------------------------------------------ *)
(* Dry runs                                                            *)
(* ------------------------------------------------------------------ *)

\* The spellings of "true" a run may be started with.
TrueSpellings == {<<"t", "r", "u", "e">>, <<"T", "R", "U", "E">>, <<"T", "r", "u", "e">>}

\* The run performed no network operation: no repository connection, no issue
\* creation (API or CLI), no upload call, no remote operation, no comment.
NoNetwork(r) ==
    /\ run_log[r] = <<>> /\ created[r] = "none"
    /\ uploads[r] = <<>> /\ trace[r] = <<>> /\ comments[r] = <<>>
    /\ ~InCall(r)

\* C21: a ticket-driven run with a ticket key whose DRY_RUN is "true" in any
\* letter case returns normally once the ticket is read and performs no
\* network operation, whether or not the token and the repository identifier
\* are set.
C21_DryRunByFlag ==
    \A r \in Runs :
        (Entered(r) /\ jira_key[r] # "" /\ DRY_RUN[r] \in TrueSpellings) =>
            (pc[r] = "exit0" /\ NoNetwork(r))

\* A run started with DRY_RUN=TRUE and neither token nor repository
\* identifier: it returned normally.
C21_Witness ==
    \E r \in Runs :
        /\ Entered(r) /\ jira_key[r] # ""
        /\ DRY_RUN[r] = <<"T", "R", "U", "E">>
        /\ token[r] = Unset /\ repo_name[r] = Unset
        /\ pc[r] = "exit0" /\ NoNetwork(r)

\* C22: a run started with --dry-run and --from-jira creates no issue and
\* makes no upload call.
C22_DryRunBySwitch ==
    \A r \in Runs :
        {"--dry-run", "--from-jira"} \subseteq args[r] =>
            /\ ~Ran(r, "create_issue") /\ ~Ran(r, "gh_issue_create")
            /\ uploads[r] = <<>> /\ ~InCall(r)

\* A run started with --dry-run and --from-jira that created its issue and
\* uploaded an attachment.
C22_Created ==
    \E r \in Runs :
        /\ {"--dry-run", "--from-jira"} \subseteq args[r]
        /\ created[r] = "Issue"
        /\ \E i \in 1..Len(uploads[r]) : uploads[r][i][2] = "True"

(* ------------------------------------------------------------------ *)
(* Severity classification and label composition                       *)
(* ------------------------------------------------------------------ *)

SeverityLabels == {"severity:critical", "severity:high", "severity:medium", "severity:low"}

\* The raw score is a number (a float, an int of any size, a numeric string).
IsNumber(x) == x[1] \in {"float", "int", "numstr", "bigint"}

\* C23: severity_label never raises; a score s gives critical iff s >= 9.0,
\* high iff 7.0 <= s < 9.0, medium iff 4.0 <= s < 7.0 and low iff s < 4.0,
\* and an absent or unparsable value (None, "", "N/A", an empty cell, a
\* non-numeric string) gives low.
C23_SeverityClassification ==
    severity # <<>> =>
        /\ severity[1] \in SeverityLabels
        /\ (IsNumber(cvss_raw) /\ cvss_raw # BigInt) =>
              /\ severity[1] = "severity:critical" <=> cvss_raw[2] >= 900
              /\ severity[1] = "severity:high" <=> (cvss_raw[2] >= 700 /\ cvss_raw[2] < 900)
              /\ severity[1] = "severity:medium" <=> (cvss_raw[2] >= 400 /\ cvss_raw[2] < 700)
              /\ severity[1] = "severity:low" <=> cvss_raw[2] < 400
        /\ cvss_raw = BigInt => severity[1] = "severity:critical"
        /\ ~IsNumber(cvss_raw) => severity[1] = "severity:low"

\* severity_label of an int beyond the range of a float raised OverflowError.
C23_Overflow == cvss_raw = BigInt /\ severity = <<"OverflowError">>

\* The sequence build_issue_labels composes before it drops and dedupes: the
\* extras that were passed, the marker, the severity label of the record.
Composed(call) ==
    (IF call.passed.given THEN call.passed.items ELSE <<>>)
        \o <<"vulnerability", severity_label(get(vuln, "CVSS Score"))>>

\* The indices of a sequence that hold a non-empty label not held by an
\* earlier index.
FirstOccurrences(src) ==
    {i \in 1..Len(src) : src[i] # "" /\ \A j \in 1..(i - 1) : src[j] # src[i]}

\* C24: build_issue_labels returns extras ++ <<"vulnerability", severity
\* label>> reduced to the first occurrences of its non-empty entries, in
\* order; the result has no duplicate; the sequence that was passed is as
\* it was; score 9.8 with extras <<"team:backend">> gives <<"team:backend",
\* "vulnerability", "severity:critical">>.
C24_LabelComposition ==
    labels # <<>> =>
        LET call == labels[1]
            src == Composed(call)
            kept == FirstOccurrences(src)
            out == call.deduped
        IN /\ call.raised = "no"
           /\ Len(out) = Cardinality(kept)
           /\ \A k \in 1..Len(out) :
                 \E i \in kept : Cardinality({j \in kept : j <= i}) = k /\ out[k] = src[i]
           /\ \A a, b \in 1..Len(out) : a # b => out[a] # out[b]
           /\ extra_labels = call.passed
           /\ (get(vuln, "CVSS Score") = <<"float", 980>>
                  /\ call.passed = [given |-> TRUE, items |-> <<"team:backend">>]) =>
                 out = <<"team:backend", "vulnerability", "severity:critical">>

\* Extras with an empty label and the marker itself, for a record without a
\* score: the empty label is dropped and the marker is kept once.
C24_Witness ==
    /\ labels # <<>>
    /\ vuln = NoRecord
    /\ labels[1].passed = [given |-> TRUE, items |-> <<"", "vulnerability">>]
    /\ labels[1].deduped = <<"vulnerability", "severity:low">>

\* C25: the result of build_issue_labels holds exactly one severity:* label,
\* the one severity_label gives for the record's score.
C25_OneSeverityLabel ==
    labels # <<>> =>
        LET out == labels[1].deduped
        IN /\ Cardinality({k \in 1..Len(out) : out[k] \in SeverityLabels}) = 1
           /\ \A k \in 1..Len(out) :
                 out[k] \in SeverityLabels => out[k] = severity_label(get(vuln, "CVSS Score"))

\* Score 9.8 with the extra label severity:high: two severity labels.
C25_TwoSeverities ==
    /\ labels # <<>>
    /\ get(vuln, "CVSS Score") = <<"float", 980>>
    /\ labels[1].deduped = <<"severity:high", "vulnerability", "severity:critical">>

\* Where a label stands in a sequence (0 = nowhere).
IndexOf(seq, label) ==
    IF \E k \in 1..Len(seq) : seq[k] = label
    THEN CHOOSE k \in 1..Len(seq) : seq[k] = label
    ELSE 0

\* C26: in the result of build_issue_labels the marker comes before the
\* severity label of the record, and every extra label that was passed, other
\* than these two, comes before the marker.
C26_ExtrasMarkerSeverity ==
    labels # <<>> =>
        LET out == labels[1].deduped
            marker == IndexOf(out, "vulnerability")
            label == IndexOf(out, severity_label(get(vuln, "CVSS Score")))
        IN /\ marker > 0 /\ label > 0 /\ marker < label
           /\ \A k \in 1..Len(out) :
                 (/\ \E i \in 1..Len(labels[1].passed.items) :
                        labels[1].passed.items[i] = out[k]
                  /\ k # marker /\ k # label) => k < marker

\* Extras <<"vulnerability", "team:backend">>: the extra label comes after
\* the marker.
C26_ExtraAfterMarker ==
    /\ labels # <<>>
    /\ labels[1].passed.items = <<"vulnerability", "team:backend">>
    /\ labels[1].deduped[1] = "vulnerability" /\ labels[1].deduped[2] = "team:backend"

(* ------------------------------------------------------------------ *)
(* Rendering                                                           *)
(* ------------------------------------------------------------------ *)

\* C27: str.format_map with a SafeDict never fails on a template of named
\* placeholders: a placeholder whose key the mapping lacks renders as "N/A",
\* one whose key it holds renders as the value, a literal text as itself;
\* render_issue_from_jira raises for no key, summary and description, with
\* the template file and with the template in the code.
C27_RenderingNeverFails ==
    /\ formatted # <<>> =>
          /\ formatted[1].raised = "no"
          /\ Len(formatted[1].text) = Len(template.pieces)
          /\ \A i \in 1..Len(template.pieces) :
                LET piece == template.pieces[i]
                IN formatted[1].text[i] =
                      (IF piece[1] = "text" THEN piece[2]
                       ELSE IF piece[2] \in DOMAIN context THEN context[piece[2]][2]
                       ELSE "N/A")
    /\ body # <<>> => body[1].raised = "no"

\* A template {jira_issue_key}{other} formatted with a mapping that holds the
\* first key only, and a body rendered from three missing fields with the
\* template in the code.
C27_Witness ==
    /\ formatted # <<>> /\ body # <<>>
    /\ template.pieces = << <<"field", "jira_issue_key">>, <<"field", "other">> >>
    /\ DOMAIN context = {"jira_issue_key"}
    /\ formatted[1].text = <<"SCRUM-1", "N/A">>
    /\ jira_fields = [f \in FieldNames |-> None]
    /\ body[1].raised = "no"

\* The template a call of render_issue_from_jira renders.
Rendered == IF template.exists THEN template.pieces ELSE in_code_template

\* C28: in the body of render_issue_from_jira a field (ticket key, summary,
\* description) that is missing, null or empty reads "N/A", and every other
\* field reads as its value.
C28_FieldSanitization ==
    body # <<>> =>
        /\ body[1].raised = "no"
        /\ \A i \in 1..Len(Rendered) :
              (Rendered[i][1] = "field" /\ Rendered[i][2] \in FieldNames) =>
                  LET value == jira_fields[Rendered[i][2]]
                  IN body[1].text[i] =
                        (IF value \in {None, NaN, <<"str", "">>} THEN "N/A" ELSE value[2])

\* A body rendered from an empty key, summary and description with the
\* template in the code: the fields read UNKNOWN, No summary provided and No
\* description provided.
C28_Defaults ==
    /\ body # <<>> /\ ~template.exists
    /\ jira_fields = [f \in FieldNames |-> <<"str", "">>]
    /\ body[1].text[2] = "UNKNOWN"
    /\ body[1].text[4] = "No summary provided"
    /\ body[1].text[6] = "No description provided"

(* ------------------------------------------------------------------ *)
(* Step ordering and the comments of one upload call                   *)
(* ------------------------------------------------------------------ *)

\* The steps of the primary transport that read the local file or look up and
\* write the target path.
ReadAndWriteOps == {"read_local", "get_contents", "update_file", "create_file"}

\* Before step i of the trace, the branch was observed, created, or its
\* concurrent creation confirmed.
BranchSeenBefore(r, i) ==
    \E j \in 1..(i - 1) :
        trace[r][j] \in {<<"get_branch", "ok">>, <<"create_git_ref", "ok">>,
                         <<"confirm_branch", "ok">>}

\* The branch check comes first: whatever the call did or is about to do
\* beyond the check, the check is the first step of its trace.
BranchCheckFirst(r) ==
    /\ trace[r] # <<>> => trace[r][1][1] = "get_branch"
    /\ (InCall(r) /\ pc[r] # "get_branch") => trace[r] # <<>>

\* The ref creations of the primary transport follow a check that reported
\* the branch absent.
PrimaryRefAfterAbsent(r) ==
    /\ pc[r] \in {"get_default_branch", "create_git_ref"} => Did(r, "get_branch", "404")
    /\ \A i \in 1..Len(trace[r]) :
          trace[r][i][1] = "create_git_ref" =>
              \E j \in 1..(i - 1) : trace[r][j] = <<"get_branch", "404">>

\* The local read and the file write, on either transport, follow the
\* observation, creation or confirmed concurrent creation of the branch.
WriteAfterBranch(r) ==
    /\ \A i \in 1..Len(trace[r]) :
          trace[r][i][1] \in ReadAndWriteOps \cup {"rest"} => BranchSeenBefore(r, i)
    /\ pc[r] \in ReadAndWriteOps \cup RestLabels => BranchSeenBefore(r, Len(trace[r]) + 1)

\* A comment with the raw URL follows a successful file write on one of the
\* transports.
UrlAfterWrite(r) ==
    /\ pc[r] \in {"comment_success", "comment_success_rest"} => WriteSucceeded(r)
    /\ \A i \in 1..Len(comments[r]) :
          comments[r][i].body.kind \in {"attachment", "attachment_rest"} => WriteSucceeded(r)

\* The fallback starts after the primary transport failed at the file write
\* (the lookup, the update or the create of the target path).
FallbackAfterWriteFailure(r) == RestInvoked(r) => PrimaryWriteFailed(r)

\* C29 as stated: the branch check comes first; a ref creation, on either
\* transport, is issued only after the check reported the branch absent; the
\* local read and the file write follow the observation or creation of the
\* branch; a comment with the raw URL follows a successful file write; the
\* fallback starts only after a primary file-write failure.
C29_StepOrdering ==
    \A r \in Runs :
        /\ BranchCheckFirst(r)
        /\ PrimaryRefAfterAbsent(r)
        /\ pc[r] = "rest_post_ref" => Did(r, "get_branch", "404")
        /\ WriteAfterBranch(r)
        /\ UrlAfterWrite(r)
        /\ FallbackAfterWriteFailure(r)

\* C29 (amended): the same, with the ref creation of the primary transport
\* issued only after the check reported the branch absent, while the fallback
\* issues its ref creation whatever the check reported, after a primary
\* file-write failure and its two GET requests.
C29_StepOrderingPrimaryRef ==
    \A r \in Runs :
        /\ BranchCheckFirst(r)
        /\ PrimaryRefAfterAbsent(r)
        /\ pc[r] = "rest_post_ref" => PrimaryWriteFailed(r)
        /\ WriteAfterBranch(r)
        /\ UrlAfterWrite(r)
        /\ FallbackAfterWriteFailure(r)

\* A call that found the branch, failed to create the file and is about to
\* issue the ref creation of the fallback.
C29_Witness ==
    \E r \in Runs :
        /\ pc[r] = "rest_post_ref"
        /\ trace[r] = << <<"get_branch", "ok">>, <<"read_local", "ok">>,
                         <<"get_contents", "404">>, <<"create_file", "error">> >>

\* C30: a call of upload_attachment_to_repo_and_comment attempts no comment
\* before its last step and exactly one when it has returned: the comment
\* with the raw URL, or one failure notice.
C30_OneComment ==
    \A r \in Runs :
        /\ Len(comments[r]) <= 1
        /\ (InCall(r) /\ ~Returned(r)) => comments[r] = <<>>
        /\ Returned(r) =>
              /\ Len(comments[r]) = 1
              /\ UrlComment(r, comments[r][1]) \/ FailureComment(comments[r][1])
              /\ UrlComment(r, comments[r][1]) => WriteSucceeded(r)

\* A call whose fallback returned False and whose one failure notice could
\* not be posted.
C30_Witness ==
    \E r \in Runs :
        /\ Returned(r)
        /\ Did(r, "rest", "False")
        /\ Len(comments[r]) = 1
        /\ FailureComment(comments[r][1]) /\ ~comments[r][1].posted

(* ------------------------------------------------------------------ *)
(* The value the upload call returns                                   *)
(* ------------------------------------------------------------------ *)

\* The comment with the raw URL of the current call of r was posted.
UrlCommentPosted(r) ==
    \E i \in 1..Len(comments[r]) : UrlComment(r, comments[r][i]) /\ comments[r][i].posted

\* C31: upload_attachment_to_repo_and_comment returns True if and only if one
\* of the two transports wrote the file and the comment with its raw URL was
\* posted; when the file was written and posting that comment failed, it
\* returns False and attempts no failure notice.
C31_ReturnValue ==
    \A r \in Runs :
        Returned(r) =>
            /\ ret[r] \in {"True", "False"}
            /\ ret[r] = "True" <=> (WriteSucceeded(r) /\ UrlCommentPosted(r))
            /\ ret[r] = "True" => files[target_path(r)] # NoFile
            /\ (WriteSucceeded(r) /\ ~UrlCommentPosted(r)) =>
                  /\ ret[r] = "False"
                  /\ Len(comments[r]) = 1
                  /\ UrlComment(r, comments[r][1]) /\ ~comments[r][1].posted
                  /\ \A i \in 1..Len(comments[r]) : ~FailureComment(comments[r][i])

\* A call whose fallback wrote the file, whose comment with the raw URL could
\* not be posted, and which returned False.
C31_Witness ==
    \E r \in Runs :
        /\ Returned(r)
        /\ Did(r, "rest", "True")
        /\ Len(comments[r]) = 1 /\ ~comments[r][1].posted
        /\ ret[r] = "False"

(* ------------------------------------------------------------------ *)
(* The content PUT of the REST fallback                                *)
(* ------------------------------------------------------------------ *)

\* Run r takes the step that issues the content PUT of its fallback.
PutStep(r) == pc[r] = "rest_put" /\ pc'[r] # "rest_put"

\* The fallback of run r returns True in this step.
FallbackReturnsTrue(r) == pc[r] # "comment_success_rest" /\ pc'[r] = "comment_success_rest"

\* C32: the REST fallback creates files and never updates one. Its content PUT
\* carries no version token: issued while a file exists at the target path,
\* it leaves the files of the branch as they are and the fallback does not
\* return True (it returns False, unless the request itself raised); the
\* fallback returns True only in a PUT step that found no file at the target
\* path and created it with the content of the call.
C32_FallbackCreatesOnly ==
    [][\A r \in Runs :
          /\ (PutStep(r) /\ files[target_path(r)] # NoFile) =>
                /\ files' = files
                /\ pc'[r] \in {"comment_write_fail", raise_outer("Exception")}
                /\ ~Did(r, "rest", "True")'
          /\ FallbackReturnsTrue(r) =>
                /\ PutStep(r)
                /\ files[target_path(r)] = NoFile
                /\ files' = [files EXCEPT ![target_path(r)] = content(r)]]_vars

\* A call that found a file at the target path, could not update it, and
\* whose fallback returned False with the file still on the branch.
C32_Witness ==
    \E r \in Runs :
        /\ pc[r] = "comment_write_fail"
        /\ Did(r, "get_contents", "ok")
        /\ Tried(r, "update_file") /\ ~Did(r, "update_file", "ok")
        /\ Did(r, "rest", "False")
        /\ files[target_path(r)] # NoFile

(* ------------------------------------------------------------------ *)
(* Disclosure of the credential token                                  *)
(* ------------------------------------------------------------------ *)

\* Run r was started with a token (GH_PAT_AGENT set and not empty).
HasToken(r) == token[r] \notin {Unset, ""}

\* Whether a printed line of run r holds the value of its token.
TokenPrinted(r) ==
    \E i \in 1..Len(printed[r]) :
        \E j \in 1..Len(printed[r][i].values) : printed[r][i].values[j] = token[r]

\* Whether a comment of the current call of run r holds the value of its
\* token, in the place of the host, the repository, the branch, the folder or
\* the ticket key of its URL.
TokenInComment(r) ==
    \E i \in 1..Len(comments[r]) :
        /\ comments[r][i].body.url # NoUrl
        /\ \E j \in 1..5 : comments[r][i].body.url[j] = token[r]

\* The two runs were started alike but for the value of their tokens, and both
\* have read and printed their configuration.
AlikeButToken(r, q) ==
    /\ HasToken(r) /\ HasToken(q)
    /\ jira_key[r] = jira_key[q] /\ summary[r] = summary[q]
    /\ repo_name[r] = repo_name[q] /\ DRY_RUN[r] = DRY_RUN[q] /\ args[r] = args[q]
    /\ Entered(r) /\ Entered(q)
    /\ pc[r] # "configure" /\ pc[q] # "configure"

\* C33: the value of the credential token of a ticket-driven run is in no line
\* the run prints and in no comment it attempts, and two runs that differ only
\* in the value of the token print the same lines.
C33_TokenNeverDisclosed ==
    \A r \in Runs :
        /\ HasToken(r) => (~TokenPrinted(r) /\ ~TokenInComment(r))
        /\ \A q \in Runs : AlikeButToken(r, q) => printed[r] = printed[q]

\* Two runs started alike with different tokens, each after printing the line
\* that holds its own token: their printed lines differ.
C33_TokenPrinted ==
    /\ AlikeButToken("run1", "run2")
    /\ token["run1"] # token["run2"]
    /\ TokenPrinted("run1") /\ TokenPrinted("run2")
    /\ printed["run1"] # printed["run2"]

(* ------------------------------------------------------------------ *)
(* The standalone upload script                                        *)
(* ------------------------------------------------------------------ *)

\* The calls of one kind the script made, in order.
CallsOf(what) == SelectSeq(calls, LAMBDA c : c[1] = what)

Uploaded(c) == c[3] \in {"200", "201"}

\* The script has listed the directory (a script that misses a required
\* variable never does).
Listed == Required \subseteq environ /\ at \notin {"idle", "load", "main"}

\* local_files holds the regular files of the directory, each once, by
\* ascending name; the files read and the files sent are, in order, the first
\* files of local_files.
SortedOrder ==
    Listed =>
        /\ {local_files[i] : i \in 1..Len(local_files)} =
              {e \in directory.entries : directory.exists /\ e.is_file}
        /\ \A i, j \in 1..Len(local_files) :
              i < j => str_lt(local_files[i].name, local_files[j].name)
        /\ Len(CallsOf("read")) <= Len(local_files)
        /\ \A i \in 1..Len(CallsOf("read")) : CallsOf("read")[i][2] = local_files[i].name
        /\ \A i \in 1..Len(CallsOf("upload_file")) :
              CallsOf("upload_file")[i][2] = local_files[i].name

\* A failed upload that was not of the last file is followed by the turn of
\* the next file.
FailureSkipsOneFile ==
    (/\ calls # <<>>
     /\ calls[Len(calls)][1] = "upload_file"
     /\ ~Uploaded(calls[Len(calls)])
     /\ Len(CallsOf("upload_file")) < Len(local_files)) =>
        /\ at = "read"
        /\ cursor = Len(CallsOf("upload_file")) + 1

\* The entries of the comment for the uploaded files, in processing order.
UploadedEntries ==
    [i \in 1..Len(SelectSeq(CallsOf("upload_file"), Uploaded)) |->
        LET n == sanitize_filename(SelectSeq(CallsOf("upload_file"), Uploaded)[i][2])
        IN <<n, script_raw_url(n)>>]

\* Every file of the directory had its turn.
AllFilesDone == Listed /\ Len(CallsOf("upload_file")) = Len(local_files)

\* At most one comment is attempted, after all files, listing the uploaded
\* files in processing order; once all files are done and a file was uploaded
\* the comment is attempted before the script ends; with no uploaded file the
\* script ends without a comment.
OneCommentOfUploads ==
    /\ Len(comment_posts) <= 1
    /\ comment_posts # <<>> =>
          /\ AllFilesDone
          /\ comment_posts[1].body = UploadedEntries
          /\ UploadedEntries # <<>>
    /\ (AllFilesDone /\ at \in {"exit0", "exit1"}) =>
          (comment_posts # <<>> <=> UploadedEntries # <<>>)

CommentFailed == comment_posts # <<>> /\ ~comment_posts[1].ok

\* A required variable is missing: the script ended while it was loaded.
EnvMissing == ~(Required \subseteq environ) /\ calls = <<>> /\ local_files = <<>>

\* The last call raised out of main(): a request outside the try of the loop
\* failed, or the file could not be read.
Uncaught ==
    /\ calls # <<>> /\ comment_posts = <<>>
    /\ LET c == calls[Len(calls)] IN
          \/ c[1] \in {"get_default_branch", "get_ref"} /\ c[3] # "200"
          \/ c[1] = "post_ref" /\ c[3] # "201"
          \/ c[1] \in {"branch_exists", "read", "get_file_sha"} /\ c[3] = "Exception"

\* C34 as stated: the files are processed in sorted order; a failed upload
\* skips only that file; after all files exactly one comment lists the
\* uploaded files in processing order, and none is posted when no file was
\* uploaded; the script exits with code 1 only when posting the comment
\* failed.
C34_StandaloneScript ==
    /\ SortedOrder
    /\ FailureSkipsOneFile
    /\ OneCommentOfUploads
    /\ at = "exit1" => CommentFailed

\* C34 (amended): the same, with the exit code 1 also of a script that misses
\* a required environment variable and of a script that an exception left:
\* the script exits with code 1 exactly when posting the comment failed, a
\* required variable is missing, or a request outside the try of the loop or
\* the read of a file raised; such a script posts no comment.
C34_StandaloneScriptExitCodes ==
    /\ SortedOrder
    /\ FailureSkipsOneFile
    /\ OneCommentOfUploads
    /\ at = "exit1" => (CommentFailed \/ EnvMissing \/ Uncaught)
    /\ at = "exit0" => (~CommentFailed /\ Required \subseteq environ /\ ~Uncaught)

\* A script that listed three files, whose second upload failed, and which
\* posted one comment with the first and the third file, in the order of the
\* names in the directory.
C34_Witness ==
    /\ at = "exit0"
    /\ Len(local_files) = 3
    /\ local_files[1].name = <<"a", " ", "b">> /\ local_files[2].name = <<"a", ".", "b">>
    /\ Uploaded(CallsOf("upload_file")[1])
    /\ ~Uploaded(CallsOf("upload_file")[2])
    /\ Uploaded(CallsOf("upload_file")[3])
    /\ Len(comment_posts) = 1 /\ comment_posts[1].ok
    /\ Len(comment_posts[1].body) = 2

====
